---- MODULE Spec2Model ----
(***************************************************************************)
(* State-machine model of the streaming upload orchestrator of             *)
(* src-tauri: the HTTP handlers of api.rs (init_upload, upload_chunk,      *)
(* complete_upload, cancel_upload), the session helpers and the            *)
(* streaming sender of upload.rs, the part-dispatch tasks, and the GC      *)
(* loop of main.rs.                                                        *)
(*                                                                         *)
(* Sizes are counted in MiB: a "byte" of the model is one MiB of the       *)
(* program, so guild_filesize_limit is 10/50/100 and the floor of          *)
(* limit * safe_ratio is taken on these numbers.  A chunk body is the      *)
(* sequence of its bytes; the byte at offset k of chunk idx is the pair     *)
(* <<idx, k>>, so any two bytes of one file differ.                        *)
(*                                                                         *)
(* Specifications: Spec (several sessions, handlers atomic between their   *)
(* suspension points), SpecUpload (one upload in depth), SpecStore (one    *)
(* upload with mark_chunk_received split at its file accesses),            *)
(* SpecDispatch (one uninterrupted upload under fair task scheduling) and  *)
(* SpecMerge (merge_to_channel of download.rs).                            *)
(***************************************************************************)
EXTENDS Integers, Sequences, FiniteSets, TLC

\* ---------------------------------------------------------------- bounds
\* Session ids that can be minted in one run.
MaxSessions == 2
\* Largest total_chunks a client announces; chunk indices range over
\* 0..MaxChunks, so MaxChunks itself is always out of range.
MaxChunks == 2
\* Chunk posts accepted into sender queues in one run of SpecUpload.
MaxPosts == 2
\* The same in one run of Spec, where it also bounds total_chunks and the
\* chunk indices.
MaxSessionPosts == 1
\* Last instant of the clock.
MaxNow == 2

\* ------------------------------------------------------------- constants
\* Capacity of the chunk queue.
ChunkQueueCap == 64

\* Download: the parts of a record, the length of an unpacked payload and
\* read_buffer_bytes are bounded.
MaxMergeParts == 2

\* Longest parts_info and message_ids of a record handed to normalize_parts.
MaxRecordParts == 2

\* Longest input handed to unzip_or_raw.
MaxUnzipLen == 6

\* Longest text of a state document, in tokens.
MaxDocLen == 3

\* Longest file name a client uploads, in characters.
MaxNameLen == 3

\* Most MiB an archive is longer than the part it packs.
MaxZipOverhead == 3

MaxPayload == 3

MaxReadBuffer == 2

\* The capacity of the delivery channel merge_to_channel creates.
MergeChannelCap == 16

\* The length sanitize_name cuts a name to.
NameCap == 100

\* Body sizes a client posts (MiB); 0 is the empty body.
ChunkSizes == {0, 6, 10}

\* The configurations a run starts from: the guild's premium tier, whether
\* both TELEGRAM_* variables are set, and the Config fields the model reads:
\* discord_safe_ratio in percent, tg_file_limit_bytes in MiB, session_ttl_s
\* in clock ticks, the retry count and the base of the backoff in seconds.
\* input_limit is 8 under both: floor(10 * 0.85) from the
\* guild limit under the first, from the Telegram limit under the second.
Configs ==
    { [ premium_tier |-> 0, tg_enabled |-> FALSE, tg_file_limit |-> 50,
        discord_safe_ratio |-> 85, discord_parallel_sends |-> 1,
        tg_parallel_sends |-> 1, session_ttl |-> 1,
        discord_send_retries |-> 3, discord_retry_base_s |-> 3 ],
      [ premium_tier |-> 2, tg_enabled |-> TRUE, tg_file_limit |-> 10,
        discord_safe_ratio |-> 85, discord_parallel_sends |-> 2,
        tg_parallel_sends |-> 1, session_ttl |-> 1,
        discord_send_retries |-> 2, discord_retry_base_s |-> 1 ] }

VARIABLES
    cfg,         \* Config and AppState.tg_enabled, fixed at start-up
    now,         \* the clock (chrono::Utc::now)
    next_id,     \* the next session id create_session derives
    sessions,    \* upload_sessions.json: session_id -> UploadSession
    sender_map,  \* AppState.sender_map: the ids that hold a SenderEntry
    senders,     \* the sender task of each spawned session
    tasks,       \* the part-dispatch tasks each sender spawned, by part number
    marked,      \* complete_upload handlers that set "sending" and now
                 \* wait for the sender_map lock
    completing,  \* complete_upload handlers awaiting entry.result_rx
    history,     \* file_history.json, most recent first
    chunks,      \* the client's file: per session, index -> body it posts
    n_posts,     \* chunk posts accepted so far
    rmw,         \* mark_chunk_received calls that loaded the sessions file
                 \* and have not saved it yet
    merge,       \* the task merge_to_channel spawned, its channel and consumer
    call,        \* a call of a function on a value: its argument and result
    files,       \* the state documents on disk: file name -> content
    guild_channels, \* the text channels of the guild on backend A, by id
    channel_id,  \* UploadSession.channel_id / SenderArgs.channel_id per session
    sends        \* the send loop of each dispatch task that holds a permit

\* The variables no upload handler, sender, GC or download step of the
\* coarse specifications writes.
otherVars == <<call, files, guild_channels, channel_id, sends>>

vars == <<cfg, now, next_id, sessions, sender_map, senders, tasks, marked,
          completing, history, chunks, n_posts, rmw, merge, otherVars>>

\* ------------------------------------------------------------ maps, bytes
EmptyMap == [k \in {} |-> <<>>]

MapInsert(m, k, v) == [x \in DOMAIN m \cup {k} |-> IF x = k THEN v ELSE m[x]]

MapRemove(m, k) == [x \in DOMAIN m \ {k} |-> m[x]]

ChunkBody(idx, len) == [k \in 1..len |-> <<idx, k>>]

RECURSIVE SeqSum(_)
SeqSum(s) == IF s = <<>> THEN 0 ELSE Head(s) + SeqSum(Tail(s))

RECURSIVE Flatten(_)
Flatten(ss) == IF ss = <<>> THEN <<>> ELSE Head(ss) \o Flatten(Tail(ss))

Min(a, b) == IF a < b THEN a ELSE b

\* ------------------------------------------------------------- upload.rs
guild_filesize_limit(premium_tier) ==
    CASE premium_tier = 2 -> 50
      [] premium_tier = 3 -> 100
      [] OTHER            -> 10

GuildFileLimit == guild_filesize_limit(cfg.premium_tier)

InputLimit ==
    LET discord_max == (GuildFileLimit * cfg.discord_safe_ratio) \div 100
        tg_max      == IF cfg.tg_enabled
                       THEN (cfg.tg_file_limit * cfg.discord_safe_ratio) \div 100
                       ELSE discord_max
    IN  Min(discord_max, tg_max)

UseTgOdd(total_parts) == cfg.tg_enabled /\ (total_parts % 2 = 1)

UseTg(total_parts) == cfg.tg_enabled /\ (total_parts % 2 = 0)

MethodAtMostOne(total_parts) ==
    IF total_parts <= 1 THEN "direct"
    ELSE IF cfg.tg_enabled THEN "dual"
    ELSE "split"

Method(total_parts) ==
    IF total_parts = 1 THEN "direct"
    ELSE IF cfg.tg_enabled THEN "dual"
    ELSE "split"

\* mark_chunk_received's mutator: push unless contained, then sort.
RECURSIVE SortInsert(_, _)
SortInsert(s, x) ==
    IF s = <<>> THEN <<x>>
    ELSE IF x < Head(s) THEN <<x>> \o s
    ELSE <<Head(s)>> \o SortInsert(Tail(s), x)

RECURSIVE SortUnstable(_)
SortUnstable(s) == IF s = <<>> THEN <<>> ELSE SortInsert(SortUnstable(Tail(s)), Head(s))

Contains(s, x) == \E i \in 1..Len(s) : s[i] = x

MarkReceived(received_chunks, idx) ==
    IF ~Contains(received_chunks, idx)
    THEN SortUnstable(Append(received_chunks, idx))
    ELSE received_chunks

\* all_parts.sort_by_key(|p| p.part): a stable sort.
RECURSIVE InsertByPart(_, _)
InsertByPart(s, p) ==
    IF s = <<>> THEN <<p>>
    ELSE IF p.part < Head(s).part THEN <<p>> \o s
    ELSE <<Head(s)>> \o InsertByPart(Tail(s), p)

SortByPartSkipped(s) == s

RECURSIVE SortByPart(_)
SortByPart(s) ==
    IF s = <<>> THEN <<>>
    ELSE InsertByPart(SortByPart(SubSeq(s, 1, Len(s) - 1)), s[Len(s)])

NewSession(total_chunks) ==
    [ total_chunks    |-> total_chunks,
      received_chunks |-> <<>>,
      status          |-> "uploading",
      created_at      |-> now ]

NoResult ==
    [ kind |-> "none", method |-> "", parts |-> 0, parts_info |-> <<>>,
      message_ids |-> <<>>, jump_urls |-> <<>> ]

ErrResult == [NoResult EXCEPT !.kind = "err"]

NewSender(total_chunks) ==
    [ pc             |-> "start",
      total_chunks   |-> total_chunks,
      queue          |-> <<>>,
      pending_chunks |-> EmptyMap,
      buffer         |-> <<>>,
      next_expected  |-> 0,
      total_parts    |-> 0,
      pending_tasks  |-> <<>>,
      all_parts      |-> <<>>,
      message_ids    |-> <<>>,
      jump_urls      |-> <<>>,
      result         |-> NoResult ]

\* The receiver half of the chunk queue lives as long as streaming_sender runs.
RxAlive(s) == s.pc \in {"start", "loop", "recv", "flush"}

\* dispatch_part: the spawned task, before it acquired its permit.
NewTask(part_num, part_data) ==
    [ part   |-> part_num,
      data   |-> part_data,
      use_tg |-> UseTg(part_num),
      st     |-> "waiting" ]

\* The PartInfo a finished task returns.
PartInfoOf(t) ==
    [ part       |-> t.part,
      platform   |-> IF t.use_tg THEN "telegram" ELSE "discord",
      message_id |-> t.part,
      jump_url   |-> IF t.use_tg THEN <<>> ELSE <<t.part>> ]

\* The non-blocking drain: every ready item goes into pending_chunks.
RECURSIVE DrainInto(_, _)
DrainInto(p, q) ==
    IF q = <<>> THEN p
    ELSE DrainInto(MapInsert(p, Head(q)[1], Head(q)[2]), Tail(q))

\* A move that takes the lowest pending index whatever next_expected is.
RECURSIVE MoveLowestPending(_, _, _)
MoveLowestPending(p, buf, nx) ==
    IF DOMAIN p # {}
    THEN LET low == CHOOSE i \in DOMAIN p : \A j \in DOMAIN p : i <= j
         IN  MoveLowestPending(MapRemove(p, low), buf \o p[low], low + 1)
    ELSE [pending_chunks |-> p, buffer |-> buf, next_expected |-> nx]

\* A move that also appends the chunks left in pending_chunks under an
\* index next_expected has already passed.
RECURSIVE MoveAppendsStale(_, _, _)
MoveAppendsStale(p, buf, nx) ==
    IF nx \in DOMAIN p
    THEN MoveAppendsStale(MapRemove(p, nx), buf \o p[nx], nx + 1)
    ELSE IF \E i \in DOMAIN p : i < nx
    THEN LET stale == CHOOSE i \in DOMAIN p : i < nx
         IN  MoveAppendsStale(MapRemove(p, stale), buf \o p[stale], nx)
    ELSE [pending_chunks |-> p, buffer |-> buf, next_expected |-> nx]

\* Move ordered chunks into buffer.
RECURSIVE MoveOrdered(_, _, _)
MoveOrdered(p, buf, nx) ==
    IF nx \in DOMAIN p
    THEN MoveOrdered(MapRemove(p, nx), buf \o p[nx], nx + 1)
    ELSE [pending_chunks |-> p, buffer |-> buf, next_expected |-> nx]

\* Two off-by-one variants of the cut: drain(..=input_limit) and
\* drain(..input_limit - 1).
RECURSIVE CutFullInclusive(_, _, _)
CutFullInclusive(buf, cut, limit) ==
    IF Len(buf) > limit
    THEN CutFullInclusive(SubSeq(buf, limit + 2, Len(buf)),
                          Append(cut, SubSeq(buf, 1, limit + 1)), limit)
    ELSE [buffer |-> buf, cut |-> cut]

RECURSIVE CutFullShort(_, _, _)
CutFullShort(buf, cut, limit) ==
    IF Len(buf) >= limit
    THEN CutFullShort(SubSeq(buf, limit, Len(buf)),
                      Append(cut, SubSeq(buf, 1, limit - 1)), limit)
    ELSE [buffer |-> buf, cut |-> cut]

\* Dispatch full parts: cut input_limit bytes while the buffer holds them.
RECURSIVE CutFull(_, _, _)
CutFull(buf, cut, limit) ==
    IF Len(buf) >= limit
    THEN CutFull(SubSeq(buf, limit + 1, Len(buf)), Append(cut, SubSeq(buf, 1, limit)), limit)
    ELSE [buffer |-> buf, cut |-> cut]

\* Spawn one task per cut part, numbered from total_parts + 1.
RECURSIVE Dispatch(_, _)
Dispatch(ts, cut) ==
    IF cut = <<>> THEN ts
    ELSE Dispatch(Append(ts, NewTask(Len(ts) + 1, Head(cut))), Tail(cut))

AllIn(next_expected, total_chunks, pending_chunks) ==
    next_expected >= total_chunks /\ DOMAIN pending_chunks = {}

\* A reap that drops a failed task instead of failing the sender.
RECURSIVE ReapSkipErr(_, _, _)
ReapSkipErr(pt, ts, acc) ==
    IF pt = <<>> THEN acc
    ELSE LET pn == Head(pt)
             t  == ts[pn]
         IN  IF t.st = "err"
             THEN ReapSkipErr(Tail(pt), ts, acc)
             ELSE IF t.st = "ok"
             THEN ReapSkipErr(Tail(pt), ts,
                       [acc EXCEPT !.all_parts   = Append(@, PartInfoOf(t)),
                                   !.message_ids = Append(@, PartInfoOf(t).message_id),
                                   !.jump_urls   = @ \o PartInfoOf(t).jump_url])
             ELSE ReapSkipErr(Tail(pt), ts, [acc EXCEPT !.still = Append(@, pn)])

\* Collect finished tasks, in pending_tasks order; the first failed one
\* fails the sender.
RECURSIVE Reap(_, _, _)
Reap(pt, ts, acc) ==
    IF pt = <<>> \/ acc.failed THEN acc
    ELSE LET pn == Head(pt)
             t  == ts[pn]
         IN  IF t.st = "err"
             THEN [acc EXCEPT !.failed = TRUE]
             ELSE IF t.st = "ok"
             THEN Reap(Tail(pt), ts,
                       [acc EXCEPT !.all_parts   = Append(@, PartInfoOf(t)),
                                   !.message_ids = Append(@, PartInfoOf(t).message_id),
                                   !.jump_urls   = @ \o PartInfoOf(t).jump_url])
             ELSE Reap(Tail(pt), ts, [acc EXCEPT !.still = Append(@, pn)])

SenderResult(s) ==
    [ kind        |-> "ok",
      method      |-> Method(s.total_parts),
      parts       |-> s.total_parts,
      parts_info  |-> SortByPart(s.all_parts),
      message_ids |-> s.message_ids,
      jump_urls   |-> s.jump_urls ]

Finish(s) == [s EXCEPT !.pc = "done", !.result = SenderResult(s)]

Fail(s) == [s EXCEPT !.pc = "done", !.result = ErrResult]

\* One pass of the sender loop, from its top to its next suspension point.
\* Gives the sender and its task list after the pass.
LoopPass(s, ts) ==
    LET drained == DrainInto(s.pending_chunks, s.queue)
        moved   == MoveOrdered(drained, s.buffer, s.next_expected)
        full    == CutFull(moved.buffer, <<>>, InputLimit)
        ts1     == Dispatch(ts, full.cut)
        pend1   == s.pending_tasks \o [i \in 1..Len(full.cut) |-> s.total_parts + i]
        parts1  == s.total_parts + Len(full.cut)
        all_in  == AllIn(moved.next_expected, s.total_chunks, moved.pending_chunks)
        flush   == all_in /\ full.buffer # <<>> /\ pend1 = <<>>
        ts2     == IF flush THEN Dispatch(ts1, <<full.buffer>>) ELSE ts1
        pend2   == IF flush THEN <<parts1 + 1>> ELSE pend1
        parts2  == IF flush THEN parts1 + 1 ELSE parts1
        buf2    == IF flush THEN <<>> ELSE full.buffer
        reaped  == Reap(pend2, ts2,
                        [ still |-> <<>>, failed |-> FALSE,
                          all_parts |-> s.all_parts,
                          message_ids |-> s.message_ids,
                          jump_urls |-> s.jump_urls ])
        s1      == [s EXCEPT !.queue          = <<>>,
                             !.pending_chunks = moved.pending_chunks,
                             !.next_expected  = moved.next_expected,
                             !.buffer         = buf2,
                             !.total_parts    = parts2,
                             !.pending_tasks  = reaped.still,
                             !.all_parts      = reaped.all_parts,
                             !.message_ids    = reaped.message_ids,
                             !.jump_urls      = reaped.jump_urls]
    IN  [ tasks  |-> ts2,
          sender |->
            IF reaped.failed THEN Fail(s1)
            ELSE IF all_in /\ buf2 = <<>> /\ reaped.still = <<>> THEN Finish(s1)
            ELSE IF reaped.still = <<>> THEN [s1 EXCEPT !.pc = "recv"]
            ELSE [s1 EXCEPT !.pc = "loop"] ]

\* No download is running.
NoMerge ==
    [ pc |-> "idle", payloads |-> <<>>, read_buffer_bytes |-> 0, i |-> 0, offset |-> 0,
      channel |-> <<>>, rx_alive |-> FALSE, delivered |-> <<>> ]

\* No function call is in progress.
\* ret is empty until the function returned, then holds the returned value.
NoCall == [fn |-> "none", arg |-> <<>>, ret |-> <<>>]

\* No state document exists on disk.
NoFiles == EmptyMap

\* ------------------------------------------------------------------ Init
Init ==
    /\ cfg \in Configs
    /\ now = 0
    /\ next_id = 1
    /\ sessions = EmptyMap
    /\ sender_map = {}
    /\ senders = EmptyMap
    /\ tasks = EmptyMap
    /\ marked = {}
    /\ completing = {}
    /\ history = <<>>
    /\ chunks = EmptyMap
    /\ n_posts = 0
    /\ rmw = {}
    /\ merge = NoMerge
    /\ call = NoCall
    /\ files = NoFiles
    /\ guild_channels = <<>>
    /\ channel_id = EmptyMap
    /\ sends = EmptyMap

\* ---------------------------------------------------------------- api.rs
NoId == 0

ResumableNever(resume_id) == FALSE

ResumableByEntry(resume_id) ==
    /\ resume_id \in DOMAIN sessions
    /\ resume_id \in sender_map

\* init_upload's resume check: the record exists, is "uploading", and
\* sender_map holds the id.
Resumable(resume_id) ==
    /\ resume_id \in DOMAIN sessions
    /\ sessions[resume_id].status = "uploading"
    /\ resume_id \in sender_map

\* What init_upload answers: the status, the session_id and received_chunks.
InitResponse(resume_id, channel_ok) ==
    IF resume_id # NoId /\ Resumable(resume_id)
    THEN [ status |-> 200, session_id |-> resume_id,
           received_chunks |-> sessions[resume_id].received_chunks ]
    ELSE IF ~channel_ok
    THEN [ status |-> 500, session_id |-> NoId, received_chunks |-> <<>> ]
    ELSE [ status |-> 200, session_id |-> next_id, received_chunks |-> <<>> ]

PurgeSessionSkipped(resume_id) == sessions

\* st.sender_map.lock().await.remove(&resume_id)
PurgeEntry(resume_id) ==
    IF resume_id # NoId THEN sender_map \ {resume_id} ELSE sender_map

\* delete_session_record(.., &resume_id)
PurgeSession(resume_id) ==
    IF resume_id # NoId THEN MapRemove(sessions, resume_id) ELSE sessions

InitUpload(resume_id, total_chunks, channel_ok) ==
    IF resume_id # NoId /\ Resumable(resume_id)
    THEN UNCHANGED vars
    ELSE LET map1 == PurgeEntry(resume_id)
             ses1 == PurgeSession(resume_id)
         IN  IF ~channel_ok
             THEN /\ sender_map' = map1
                  /\ sessions' = ses1
                  /\ UNCHANGED <<cfg, now, next_id, senders, tasks, marked, completing,
                                 history, chunks, n_posts, rmw, merge, otherVars>>
             ELSE /\ sessions' = MapInsert(ses1, next_id, NewSession(total_chunks))
                  /\ senders' = MapInsert(senders, next_id, NewSender(total_chunks))
                  /\ tasks' = MapInsert(tasks, next_id, <<>>)
                  /\ chunks' = MapInsert(chunks, next_id, EmptyMap)
                  /\ sender_map' = map1 \cup {next_id}
                  /\ next_id' = next_id + 1
                  /\ UNCHANGED <<cfg, now, marked, completing, history, n_posts, rmw, merge, otherVars>>

\* entry.chunk_tx.try_send under the sender_map lock.
TrySend(sid) ==
    /\ sid \in sender_map
    /\ RxAlive(senders[sid])
    /\ Len(senders[sid].queue) < ChunkQueueCap

\* The status upload_chunk answers.
ChunkStatus(session_id, body) ==
    IF session_id \notin DOMAIN sessions THEN 404
    ELSE IF body = <<>> THEN 400
    ELSE IF ~TrySend(session_id) THEN 500
    ELSE 200

UploadChunk(session_id, chunk_index, body) ==
    IF ChunkStatus(session_id, body) # 200
    THEN UNCHANGED vars
    ELSE /\ n_posts' = n_posts + 1
         /\ senders' = [senders EXCEPT ![session_id].queue =
                            Append(@, <<chunk_index, body>>)]
         /\ sessions' = [sessions EXCEPT ![session_id].received_chunks =
                            MarkReceived(@, chunk_index)]
         /\ chunks' = [chunks EXCEPT ![session_id] = MapInsert(@, chunk_index, body)]
         /\ UNCHANGED <<cfg, now, next_id, sender_map, tasks, marked, completing, history,
                        rmw, merge, otherVars>>

\* upload_chunk up to the load inside mark_chunk_received: the chunk is
\* queued and update_session has read the sessions file.
UploadChunkLoad(session_id, chunk_index, body) ==
    /\ ChunkStatus(session_id, body) = 200
    /\ n_posts' = n_posts + 1
    /\ senders' = [senders EXCEPT ![session_id].queue =
                       Append(@, <<chunk_index, body>>)]
    /\ chunks' = [chunks EXCEPT ![session_id] = MapInsert(@, chunk_index, body)]
    /\ rmw' = rmw \cup {[ session_id |-> session_id, chunk_index |-> chunk_index,
                          snap |-> sessions ]}
    /\ UNCHANGED <<cfg, now, next_id, sessions, sender_map, tasks, marked, completing,
                   history, merge, otherVars>>

\* update_session's mutate-and-save on the map it loaded: the record, if
\* the loaded map holds it, gets the index; the whole map is written back.
MarkSave(op) ==
    /\ op \in rmw
    /\ rmw' = rmw \ {op}
    /\ sessions' = IF op.session_id \in DOMAIN op.snap
                   THEN [op.snap EXCEPT ![op.session_id].received_chunks =
                             MarkReceived(@, op.chunk_index)]
                   ELSE op.snap
    /\ UNCHANGED <<cfg, now, next_id, sender_map, senders, tasks, marked, completing,
                   history, chunks, n_posts, merge, otherVars>>

\* complete_upload's chunk-count check.
EnoughChunks(session) == ~(Len(session.received_chunks) < session.total_chunks)

\* complete_upload up to its wait for the sender_map lock: 404, 400, or
\* the status becomes "sending".
CompleteUpload(session_id) ==
    IF session_id \notin DOMAIN sessions THEN UNCHANGED vars
    ELSE IF ~EnoughChunks(sessions[session_id]) THEN UNCHANGED vars
    ELSE /\ sessions' = [sessions EXCEPT ![session_id].status = "sending"]
         /\ marked' = marked \cup {session_id}
         /\ UNCHANGED <<cfg, now, next_id, sender_map, senders, tasks, completing,
                        history, chunks, n_posts, rmw, merge, otherVars>>

\* complete_upload under the lock: it removes the SenderEntry and drops
\* chunk_tx, or answers 400 when sender_map holds no entry.
CompleteTake(session_id) ==
    /\ session_id \in marked
    /\ marked' = marked \ {session_id}
    /\ IF session_id \notin sender_map
       THEN UNCHANGED <<sender_map, completing>>
       ELSE /\ sender_map' = sender_map \ {session_id}
            /\ completing' = completing \cup {session_id}
    /\ UNCHANGED <<cfg, now, next_id, sessions, senders, tasks, history, chunks,
                   n_posts, rmw, merge, otherVars>>

\* The FileRecord complete_upload builds from the sender's result.
FileRecordOf(sid, result) ==
    [ session_id  |-> sid,
      status      |-> "sent",
      method_key  |-> result.method,
      parts       |-> result.parts,
      parts_info  |-> result.parts_info,
      message_ids |-> result.message_ids,
      jump_url    |-> IF result.jump_urls = <<>> THEN <<>> ELSE <<Head(result.jump_urls)>> ]

\* A complete_upload that adds its record at the end of the history.
CompleteFinishAppends(session_id) ==
    /\ session_id \in completing
    /\ senders[session_id].pc \in {"done", "aborted"}
    /\ completing' = completing \ {session_id}
    /\ sessions' = MapRemove(sessions, session_id)
    /\ history' = IF senders[session_id].result.kind = "ok"
                  THEN history \o <<FileRecordOf(session_id, senders[session_id].result)>>
                  ELSE history
    /\ UNCHANGED <<cfg, now, next_id, sender_map, senders, tasks, marked, chunks, n_posts, rmw, merge, otherVars>>

\* complete_upload from the moment result_rx yields: Ok(Ok(r)) writes the
\* record, Ok(Err(e)) and Err(_) only delete the session.
CompleteFinish(session_id) ==
    /\ session_id \in completing
    /\ senders[session_id].pc \in {"done", "aborted"}
    /\ completing' = completing \ {session_id}
    /\ sessions' = MapRemove(sessions, session_id)
    /\ history' = IF senders[session_id].result.kind = "ok"
                  THEN <<FileRecordOf(session_id, senders[session_id].result)>> \o history
                  ELSE history
    /\ UNCHANGED <<cfg, now, next_id, sender_map, senders, tasks, marked, chunks, n_posts, rmw, merge, otherVars>>

\* handle.abort(): a sender that has not returned is dropped.
Abort(s) == IF s.pc = "done" THEN s ELSE [s EXCEPT !.pc = "aborted"]

\* cancel_upload without its delete_session_record.
CancelUploadEntryOnly(session_id) ==
    /\ session_id \in sender_map
    /\ sender_map' = sender_map \ {session_id}
    /\ senders' = [senders EXCEPT ![session_id] = Abort(@)]
    /\ UNCHANGED <<cfg, now, next_id, sessions, tasks, marked, completing, history,
                   chunks, n_posts, rmw, merge, otherVars>>

CancelUpload(session_id) ==
    /\ IF session_id \in sender_map
       THEN /\ sender_map' = sender_map \ {session_id}
            /\ senders' = [senders EXCEPT ![session_id] = Abort(@)]
       ELSE UNCHANGED <<sender_map, senders>>
    /\ sessions' = MapRemove(sessions, session_id)
    /\ UNCHANGED <<cfg, now, next_id, tasks, marked, completing, history, chunks, n_posts, rmw, merge, otherVars>>

ExpiredAnyStatus(session) == (now - session.created_at) > cfg.session_ttl

\* --------------------------------------------------------------- main.rs
Expired(session) ==
    (now - session.created_at) > cfg.session_ttl /\ session.status = "uploading"

\* A GC that also prunes the SenderEntry of every session it removes and
\* drops its sender.
GcTickPrunes ==
    LET expired == {sid \in DOMAIN sessions : Expired(sessions[sid])}
    IN  /\ sessions' = [sid \in DOMAIN sessions \ expired |-> sessions[sid]]
        /\ sender_map' = sender_map \ expired
        /\ senders' = [sid \in DOMAIN senders |->
                          IF sid \in expired /\ sid \in sender_map
                          THEN Abort(senders[sid]) ELSE senders[sid]]
        /\ UNCHANGED <<cfg, now, next_id, tasks, marked, completing,
                       history, chunks, n_posts, rmw, merge, otherVars>>

GcTick ==
    LET expired == {sid \in DOMAIN sessions : Expired(sessions[sid])}
    IN  /\ sessions' = [sid \in DOMAIN sessions \ expired |-> sessions[sid]]
        /\ UNCHANGED <<cfg, now, next_id, sender_map, senders, tasks, marked, completing,
                       history, chunks, n_posts, rmw, merge, otherVars>>

\* Time passes.  The clock is only ever read against the created_at of a
\* stored session, so it is advanced while some session is stored.
Tick ==
    /\ now < MaxNow
    /\ DOMAIN sessions # {}
    /\ now' = now + 1
    /\ UNCHANGED <<cfg, next_id, sessions, sender_map, senders, tasks, marked, completing,
                   history, chunks, n_posts, rmw, merge, otherVars>>

\* ------------------------------------------------------- the sender task
\* guild_id.to_partial_guild(http).await.context("fetch guild")?
SenderStart(sid, guild_ok) ==
    /\ senders[sid].pc = "start"
    /\ senders' = [senders EXCEPT ![sid] =
                       IF guild_ok THEN [@ EXCEPT !.pc = "loop"] ELSE Fail(@)]
    /\ UNCHANGED <<cfg, now, next_id, sessions, sender_map, tasks, marked, completing,
                   history, chunks, n_posts, rmw, merge, otherVars>>

SenderLoop(sid) ==
    /\ senders[sid].pc = "loop"
    /\ LET pass == LoopPass(senders[sid], tasks[sid])
       IN  /\ senders' = [senders EXCEPT ![sid] = pass.sender]
           /\ tasks' = [tasks EXCEPT ![sid] = pass.tasks]
    /\ UNCHANGED <<cfg, now, next_id, sessions, sender_map, marked, completing,
                   history, chunks, n_posts, rmw, merge, otherVars>>

\* chunk_rx.recv().await: an item, or None once the queue is empty and
\* chunk_tx was dropped with the SenderEntry.
SenderRecv(sid) ==
    LET s == senders[sid]
    IN  /\ s.pc = "recv"
        /\ IF s.queue # <<>>
           THEN /\ senders' = [senders EXCEPT ![sid] =
                        [s EXCEPT !.pending_chunks =
                                      MapInsert(@, Head(s.queue)[1], Head(s.queue)[2]),
                                  !.queue = Tail(@),
                                  !.pc = "loop"]]
                /\ UNCHANGED tasks
           ELSE /\ sid \notin sender_map
                /\ IF s.buffer # <<>>
                   THEN /\ senders' = [senders EXCEPT ![sid] =
                                [s EXCEPT !.total_parts = @ + 1,
                                          !.buffer = <<>>,
                                          !.pc = "flush"]]
                        /\ tasks' = [tasks EXCEPT ![sid] = Dispatch(@, <<s.buffer>>)]
                   ELSE /\ senders' = [senders EXCEPT ![sid] = Finish(s)]
                        /\ UNCHANGED tasks
        /\ UNCHANGED <<cfg, now, next_id, sessions, sender_map, marked, completing,
                       history, chunks, n_posts, rmw, merge, otherVars>>

\* h.await of the part flushed after the queue closed.
SenderFlush(sid) ==
    LET s == senders[sid]
        t == tasks[sid][s.total_parts]
    IN  /\ s.pc = "flush"
        /\ t.st \in {"ok", "err"}
        /\ senders' = [senders EXCEPT ![sid] =
               IF t.st = "err" THEN Fail(s)
               ELSE Finish([s EXCEPT !.all_parts   = Append(@, PartInfoOf(t)),
                                     !.message_ids = Append(@, PartInfoOf(t).message_id),
                                     !.jump_urls   = @ \o PartInfoOf(t).jump_url])]
        /\ UNCHANGED <<cfg, now, next_id, sessions, sender_map, tasks, marked, completing,
                       history, chunks, n_posts, rmw, merge, otherVars>>

PermitsPlusOne(use_tg) ==
    (IF use_tg THEN cfg.tg_parallel_sends ELSE cfg.discord_parallel_sends) + 1

\* ------------------------------------------------- part-dispatch tasks
Permits(use_tg) == IF use_tg THEN cfg.tg_parallel_sends ELSE cfg.discord_parallel_sends

Running(ts, use_tg) == {p \in 1..Len(ts) : ts[p].st = "running" /\ ts[p].use_tg = use_tg}

\* tg_sem.acquire() / discord_sem.acquire()
TaskAcquire(sid, p) ==
    /\ tasks[sid][p].st = "waiting"
    /\ Cardinality(Running(tasks[sid], tasks[sid][p].use_tg)) < Permits(tasks[sid][p].use_tg)
    /\ tasks' = [tasks EXCEPT ![sid][p].st = "running"]
    /\ UNCHANGED <<cfg, now, next_id, sessions, sender_map, senders, marked, completing,
                   history, chunks, n_posts, rmw, merge, otherVars>>

\* The task returns Ok(PartInfo) or an error; its permit is dropped.
TaskFinish(sid, p, ok) ==
    /\ tasks[sid][p].st = "running"
    /\ tasks' = [tasks EXCEPT ![sid][p].st = IF ok THEN "ok" ELSE "err"]
    /\ UNCHANGED <<cfg, now, next_id, sessions, sender_map, senders, marked, completing,
                   history, chunks, n_posts, rmw, merge, otherVars>>

\* ------------------------------------------------------------------ Next
Ids == 1..MaxSessions

\* The body a client posts for an index: the bytes of its file at that
\* index (the same on every post of the index), or the empty body.
Bodies(sid, idx) ==
    IF sid \in DOMAIN chunks /\ idx \in DOMAIN chunks[sid]
    THEN {<<>>, chunks[sid][idx]}
    ELSE {ChunkBody(idx, len) : len \in ChunkSizes}

\* The steps of the tasks the runtime schedules: senders, dispatch tasks,
\* the GC loop and the clock.
Background ==
    \/ GcTick
    \/ Tick
    \/ \E sid \in DOMAIN senders, ok \in BOOLEAN : SenderStart(sid, ok)
    \/ \E sid \in DOMAIN senders : SenderLoop(sid)
    \/ \E sid \in DOMAIN senders : SenderRecv(sid)
    \/ \E sid \in DOMAIN senders : SenderFlush(sid)
    \/ \E sid \in DOMAIN senders : \E p \in 1..Len(tasks[sid]) : TaskAcquire(sid, p)
    \/ \E sid \in DOMAIN senders : \E p \in 1..Len(tasks[sid]), ok \in BOOLEAN :
           TaskFinish(sid, p, ok)

\* Requests on up to MaxSessions sessions of 1..MaxSessionPosts chunks;
\* chunk indices range over 0..MaxSessionPosts and MaxSessionPosts chunks
\* are accepted.
Next ==
    \/ \E r \in 0..(next_id - 1), n \in 1..MaxSessionPosts, ok \in BOOLEAN :
           /\ next_id <= MaxSessions
           /\ InitUpload(r, n, ok)
    \/ \E sid \in Ids, idx \in 0..MaxSessionPosts : \E body \in Bodies(sid, idx) :
           /\ n_posts < MaxSessionPosts
           /\ UploadChunk(sid, idx, body)
    \/ \E sid \in Ids : CompleteUpload(sid)
    \/ \E sid \in Ids : CompleteTake(sid)
    \/ \E sid \in Ids : CompleteFinish(sid)
    \/ \E sid \in Ids : CancelUpload(sid)
    \/ Background

Spec == Init /\ [][Next]_vars

\* One upload in depth: the run's first init_upload creates the only
\* session; later init_upload calls resume it or fail to create a channel.
NextUpload ==
    \/ \E r \in 0..(next_id - 1), n \in 0..MaxChunks, ok \in BOOLEAN :
           /\ ok => DOMAIN senders = {}
           /\ InitUpload(r, n, ok)
    \/ \E sid \in DOMAIN senders, idx \in 0..MaxChunks : \E body \in Bodies(sid, idx) :
           /\ n_posts < MaxPosts
           /\ UploadChunk(sid, idx, body)
    \/ \E sid \in DOMAIN senders : CompleteUpload(sid)
    \/ \E sid \in DOMAIN senders : CompleteTake(sid)
    \/ \E sid \in DOMAIN senders : CompleteFinish(sid)
    \/ \E sid \in DOMAIN senders : CancelUpload(sid)
    \/ Background

SpecUpload == Init /\ [][NextUpload]_vars

\* One upload with mark_chunk_received split at its file accesses: between
\* the load and the save of the sessions file every other handler may run.
NextStore ==
    \/ \E r \in 0..(next_id - 1), n \in 1..MaxChunks, ok \in BOOLEAN :
           /\ ok => DOMAIN senders = {}
           /\ InitUpload(r, n, ok)
    \/ \E sid \in DOMAIN senders, idx \in 0..MaxChunks : \E body \in Bodies(sid, idx) :
           /\ n_posts < MaxPosts
           /\ UploadChunkLoad(sid, idx, body)
    \/ \E op \in rmw : MarkSave(op)
    \/ \E sid \in DOMAIN senders : CompleteUpload(sid)
    \/ \E sid \in DOMAIN senders : CompleteTake(sid)
    \/ \E sid \in DOMAIN senders : CompleteFinish(sid)
    \/ \E sid \in DOMAIN senders : CancelUpload(sid)
    \/ Background

SpecStore == Init /\ [][NextStore]_vars

\* Up to MaxSessions uploads of one chunk each, side by side and
\* uninterrupted: each is created, gets its chunk once, is sent and
\* completed.
NextHistory ==
    \/ /\ next_id <= MaxSessions
       /\ InitUpload(NoId, 1, TRUE)
    \/ \E sid \in DOMAIN senders : \E body \in Bodies(sid, 0) :
           /\ 0 \notin DOMAIN chunks[sid]
           /\ UploadChunk(sid, 0, body)
    \/ \E sid \in DOMAIN senders : CompleteUpload(sid)
    \/ \E sid \in DOMAIN senders : CompleteTake(sid)
    \/ \E sid \in DOMAIN senders : CompleteFinish(sid)
    \/ \E sid \in DOMAIN senders, ok \in BOOLEAN : SenderStart(sid, ok)
    \/ \E sid \in DOMAIN senders : SenderLoop(sid)
    \/ \E sid \in DOMAIN senders : SenderRecv(sid)
    \/ \E sid \in DOMAIN senders : SenderFlush(sid)
    \/ \E sid \in DOMAIN senders : \E p \in 1..Len(tasks[sid]) : TaskAcquire(sid, p)
    \/ \E sid \in DOMAIN senders : \E p \in 1..Len(tasks[sid]), ok \in BOOLEAN :
           TaskFinish(sid, p, ok)

SpecHistory == Init /\ [][NextHistory]_vars

\* The part numbers one upload can reach: a post adds at most two parts.
PartNumbers == 1..(2 * MaxPosts)

\* One upload that nothing interrupts: init_upload creates session 1, the
\* client posts chunks in range and calls complete_upload; the sender and
\* the dispatch tasks run.
NextDispatch ==
    \/ \E n \in 1..MaxChunks :
           /\ DOMAIN senders = {}
           /\ InitUpload(NoId, n, TRUE)
    \/ \E sid \in DOMAIN senders, idx \in 0..(MaxChunks - 1) :
           \E body \in Bodies(sid, idx) :
               /\ n_posts < MaxPosts
               /\ UploadChunk(sid, idx, body)
    \/ \E sid \in DOMAIN senders : CompleteUpload(sid)
    \/ \E sid \in DOMAIN senders : CompleteTake(sid)
    \/ \E sid \in DOMAIN senders : CompleteFinish(sid)
    \/ \E sid \in DOMAIN senders, ok \in BOOLEAN : SenderStart(sid, ok)
    \/ \E sid \in DOMAIN senders : SenderLoop(sid)
    \/ \E sid \in DOMAIN senders : SenderRecv(sid)
    \/ \E sid \in DOMAIN senders : SenderFlush(sid)
    \/ \E sid \in DOMAIN senders : \E p \in 1..Len(tasks[sid]) : TaskAcquire(sid, p)
    \/ \E sid \in DOMAIN senders : \E p \in 1..Len(tasks[sid]), ok \in BOOLEAN :
           TaskFinish(sid, p, ok)

\* The scheduling dispatch tasks run under: a task that holds a permit
\* returns (every send is bounded by the HTTP timeout and the retry count),
\* and a task for which a permit stays free acquires it.
TaskFairness ==
    \A p \in PartNumbers :
        /\ WF_vars(1 \in DOMAIN tasks /\ p <= Len(tasks[1]) /\ TaskAcquire(1, p))
        /\ WF_vars(1 \in DOMAIN tasks /\ p <= Len(tasks[1])
                       /\ \E ok \in BOOLEAN : TaskFinish(1, p, ok))

SpecDispatch == Init /\ [][NextDispatch]_vars /\ TaskFairness

\* A pass of the sender loop would change the state: the sender is at the
\* top of its loop and a chunk is queued, a part can be cut, or a task has
\* finished.  This is the enabling condition of a SenderLoop step.
LoopPassProgresses ==
    /\ 1 \in DOMAIN senders
    /\ senders[1].pc = "loop"
    /\ LoopPass(senders[1], tasks[1]) # [tasks |-> tasks[1], sender |-> senders[1]]

\* The scheduling the sender runs under: the runtime polls a task that can
\* proceed, so the guild fetch returns, the 50 ms sleep ends, recv returns
\* once an item is queued or the queue is closed, and the awaited flush is
\* resumed once its task has returned.  The first conjunct is weak
\* fairness of the loop pass, written with its enabling condition.
SenderFairness ==
    /\ ([]<>(~LoopPassProgresses)) \/ ([]<><<1 \in DOMAIN senders /\ SenderLoop(1)>>_vars)
    /\ WF_vars(1 \in DOMAIN senders /\ \E ok \in BOOLEAN : SenderStart(1, ok))
    /\ WF_vars(1 \in DOMAIN senders /\ SenderRecv(1))
    /\ WF_vars(1 \in DOMAIN senders /\ SenderFlush(1))

\* One uninterrupted upload under fair scheduling of the sender and of its
\* dispatch tasks; nothing obliges the client to post or to complete.
SpecSender == Init /\ [][NextDispatch]_vars /\ TaskFairness /\ SenderFairness

\* ------------------------------------- dispatch_part, inside the permit
\* base.pow(attempt); with base <= 30 and attempt <= 8 (config.rs clamps)
\* the power stays below 2^64.
RECURSIVE Pow(_, _)
Pow(base, exp) == IF exp = 0 THEN 1 ELSE base * Pow(base, exp - 1)

\* A backoff that grows linearly.
BackoffLinear(attempt) == cfg.discord_retry_base_s * attempt

\* sleep(Duration::from_secs(cfg.discord_retry_base_s.pow(attempt)))
Backoff(attempt) == Pow(cfg.discord_retry_base_s, attempt)

\* A cap that lets an archive one MiB over the limit through.
ArchiveCapLoose(use_tg) == (IF use_tg THEN cfg.tg_file_limit ELSE GuildFileLimit) + 1

\* The hard cap an archive is compared with: cfg.tg_file_limit_bytes in
\* telegram::send_part, guild_limit in dispatch_part.
ArchiveCap(use_tg) == IF use_tg THEN cfg.tg_file_limit ELSE GuildFileLimit

\* How much longer than its part an archive comes out of zip_bytes: 0, just
\* enough to reach a cap from a full part, or more.
ZipOverheads == {0, MaxZipOverhead - 1, MaxZipOverhead}

\* What one send attempt ends in: success, an error the loop retries, or
\* (telegram::send_part only: an unreadable response body, a response
\* without result) an error returned at once through `?`.
Outcomes(use_tg) == IF use_tg THEN {"ok", "err", "fatal"} ELSE {"ok", "err"}

\* Every variable but tasks and sends.
notTaskVars == <<cfg, now, next_id, sessions, sender_map, senders, marked, completing,
                 history, chunks, n_posts, rmw, merge, call, files, guild_channels,
                 channel_id>>

\* The task packs its part and compares the archive with the cap: it
\* enters the send loop, or returns an error without any send.
TaskZip(sid, p, overhead, zip_ok) ==
    LET t       == tasks[sid][p]
        zip_len == Len(t.data) + overhead
        fits    == zip_ok /\ ~(zip_len > ArchiveCap(t.use_tg))
    IN  /\ t.st = "running"
        /\ <<sid, p>> \notin DOMAIN sends
        /\ sends' = MapInsert(sends, <<sid, p>>,
                        [ pc       |-> IF fits THEN "attempt"
                                       ELSE IF zip_ok THEN "too_big" ELSE "zip_err",
                          zip_len  |-> IF zip_ok THEN zip_len ELSE 0,
                          attempt  |-> 0,
                          attempts |-> 0,
                          waits    |-> <<>>,
                          last_err |-> 0 ])
        /\ tasks' = IF fits THEN tasks ELSE [tasks EXCEPT ![sid][p].st = "err"]
        /\ UNCHANGED notTaskVars

\* One turn of `for attempt in 0..cfg.discord_send_retries`: the send
\* succeeds and the task returns; or it fails, and the task sleeps when
\* attempt < retries - 1 and else leaves the loop with last_err.
TaskAttempt(sid, p, outcome) ==
    LET r == sends[<<sid, p>>]
    IN  /\ <<sid, p>> \in DOMAIN sends
        /\ r.pc = "attempt"
        /\ outcome \in Outcomes(tasks[sid][p].use_tg)
        /\ sends' = [sends EXCEPT ![<<sid, p>>] =
               [r EXCEPT !.attempts = @ + 1,
                         !.last_err = IF outcome = "ok" THEN r.last_err ELSE r.attempts + 1,
                         !.pc = IF outcome = "ok" THEN "ok"
                                ELSE IF outcome = "fatal" THEN "err"
                                ELSE IF r.attempt < cfg.discord_send_retries - 1 THEN "sleep"
                                ELSE "err"]]
        /\ tasks' = IF outcome = "ok" THEN [tasks EXCEPT ![sid][p].st = "ok"]
                    ELSE IF outcome = "fatal" \/ ~(r.attempt < cfg.discord_send_retries - 1)
                    THEN [tasks EXCEPT ![sid][p].st = "err"]
                    ELSE tasks
        /\ UNCHANGED notTaskVars

\* The sleep between two attempts ends.
TaskSleep(sid, p) ==
    LET r == sends[<<sid, p>>]
    IN  /\ <<sid, p>> \in DOMAIN sends
        /\ r.pc = "sleep"
        /\ sends' = [sends EXCEPT ![<<sid, p>>] =
               [r EXCEPT !.waits = Append(@, Backoff(r.attempt)),
                         !.attempt = @ + 1,
                         !.pc = "attempt"]]
        /\ UNCHANGED tasks
        /\ UNCHANGED notTaskVars

\* One uninterrupted upload with every dispatch task followed through its
\* archive check and its send loop.
NextSend ==
    \/ \E n \in 1..MaxChunks :
           /\ DOMAIN senders = {}
           /\ InitUpload(NoId, n, TRUE)
    \/ \E sid \in DOMAIN senders, idx \in 0..(MaxChunks - 1) :
           \E body \in Bodies(sid, idx) :
               /\ n_posts < MaxPosts
               /\ UploadChunk(sid, idx, body)
    \/ \E sid \in DOMAIN senders : CompleteUpload(sid)
    \/ \E sid \in DOMAIN senders : CompleteTake(sid)
    \/ \E sid \in DOMAIN senders : CompleteFinish(sid)
    \/ \E sid \in DOMAIN senders, ok \in BOOLEAN : SenderStart(sid, ok)
    \/ \E sid \in DOMAIN senders : SenderLoop(sid)
    \/ \E sid \in DOMAIN senders : SenderRecv(sid)
    \/ \E sid \in DOMAIN senders : SenderFlush(sid)
    \/ \E sid \in DOMAIN senders : \E p \in 1..Len(tasks[sid]) : TaskAcquire(sid, p)
    \/ \E sid \in DOMAIN senders : \E p \in 1..Len(tasks[sid]), overhead \in ZipOverheads,
          zip_ok \in BOOLEAN : TaskZip(sid, p, overhead, zip_ok)
    \/ \E sid \in DOMAIN senders : \E p \in 1..Len(tasks[sid]),
          outcome \in {"ok", "err", "fatal"} : TaskAttempt(sid, p, outcome)
    \/ \E sid \in DOMAIN senders : \E p \in 1..Len(tasks[sid]) : TaskSleep(sid, p)

SpecSend == Init /\ [][NextSend]_vars

\* One uninterrupted upload whose client posts every index of the file and
\* posts one of them again, with the same payload, at any moment.
NextRepost ==
    \/ \E n \in 1..MaxChunks :
           /\ DOMAIN senders = {}
           /\ InitUpload(NoId, n, TRUE)
    \/ \E sid \in DOMAIN senders, idx \in 0..(MaxChunks - 1) :
           \E body \in Bodies(sid, idx) \ {<<>>} :
               /\ idx < senders[sid].total_chunks
               /\ n_posts < senders[sid].total_chunks + 1
               /\ UploadChunk(sid, idx, body)
    \/ \E sid \in DOMAIN senders : CompleteUpload(sid)
    \/ \E sid \in DOMAIN senders : CompleteTake(sid)
    \/ \E sid \in DOMAIN senders : CompleteFinish(sid)
    \/ \E sid \in DOMAIN senders, ok \in BOOLEAN : SenderStart(sid, ok)
    \/ \E sid \in DOMAIN senders : SenderLoop(sid)
    \/ \E sid \in DOMAIN senders : SenderRecv(sid)
    \/ \E sid \in DOMAIN senders : SenderFlush(sid)
    \/ \E sid \in DOMAIN senders : \E p \in 1..Len(tasks[sid]) : TaskAcquire(sid, p)
    \/ \E sid \in DOMAIN senders : \E p \in 1..Len(tasks[sid]), ok \in BOOLEAN :
           TaskFinish(sid, p, ok)

\* The same under fair scheduling of the sender and of its dispatch tasks.
SpecRepost == Init /\ [][NextRepost]_vars /\ TaskFairness /\ SenderFairness

\* Every variable upload_chunk leaves alone when it answers an error.
notCallVars == <<cfg, now, next_id, sessions, sender_map, senders, tasks, marked,
                 completing, history, chunks, n_posts, rmw, merge, files, guild_channels,
                 channel_id, sends>>

\* An upload_chunk that marks the index before it tries to enqueue.
UploadChunkMarksFirst(session_id, chunk_index, body) ==
    LET status == ChunkStatus(session_id, body)
    IN  /\ call' = [ fn  |-> "upload_chunk",
                     arg |-> <<session_id, chunk_index, body>>,
                     ret |-> <<status>> ]
        /\ IF status \in {404, 400}
           THEN UNCHANGED notCallVars
           ELSE /\ sessions' = [sessions EXCEPT ![session_id].received_chunks =
                                   MarkReceived(@, chunk_index)]
                /\ IF status = 200
                   THEN /\ senders' = [senders EXCEPT ![session_id].queue =
                                           Append(@, <<chunk_index, body>>)]
                        /\ chunks' = [chunks EXCEPT ![session_id] =
                                          MapInsert(@, chunk_index, body)]
                   ELSE UNCHANGED <<senders, chunks>>
                /\ UNCHANGED <<cfg, now, next_id, sender_map, tasks, marked, completing,
                               history, n_posts, rmw, merge, files, guild_channels,
                               channel_id, sends>>

\* upload_chunk with the response it answers: 404, 400 and 500 return
\* before try_send succeeded and before mark_chunk_received; 200 after both.
\* Posts are not counted here: the capacity of the queue bounds the run.
UploadChunkAnswered(session_id, chunk_index, body) ==
    LET status == ChunkStatus(session_id, body)
    IN  /\ call' = [ fn  |-> "upload_chunk",
                     arg |-> <<session_id, chunk_index, body>>,
                     ret |-> <<status>> ]
        /\ IF status # 200
           THEN UNCHANGED notCallVars
           ELSE /\ senders' = [senders EXCEPT ![session_id].queue =
                                   Append(@, <<chunk_index, body>>)]
                /\ sessions' = [sessions EXCEPT ![session_id].received_chunks =
                                   MarkReceived(@, chunk_index)]
                /\ chunks' = [chunks EXCEPT ![session_id] =
                                  MapInsert(@, chunk_index, body)]
                /\ UNCHANGED <<cfg, now, next_id, sender_map, tasks, marked, completing,
                               history, n_posts, rmw, merge, files, guild_channels,
                               channel_id, sends>>

\* One upload of a one-chunk file whose client posts index 0 again and
\* again, to its session or to one that does not exist, while the sender
\* starts, runs, fails or is cancelled at any moment.
NextQueue ==
    \/ /\ DOMAIN senders = {}
       /\ InitUpload(NoId, 1, TRUE)
    \/ \E sid \in Ids : \E body \in Bodies(sid, 0) :
           UploadChunkAnswered(sid, 0, body)
    \/ \E sid \in DOMAIN senders : CompleteUpload(sid)
    \/ \E sid \in DOMAIN senders : CompleteTake(sid)
    \/ \E sid \in DOMAIN senders : CompleteFinish(sid)
    \/ \E sid \in DOMAIN senders : CancelUpload(sid)
    \/ \E sid \in DOMAIN senders, ok \in BOOLEAN : SenderStart(sid, ok)
    \/ \E sid \in DOMAIN senders : SenderLoop(sid)
    \/ \E sid \in DOMAIN senders : SenderRecv(sid)
    \/ \E sid \in DOMAIN senders : SenderFlush(sid)
    \/ \E sid \in DOMAIN senders : \E p \in 1..Len(tasks[sid]) : TaskAcquire(sid, p)
    \/ \E sid \in DOMAIN senders : \E p \in 1..Len(tasks[sid]), ok \in BOOLEAN :
           TaskFinish(sid, p, ok)

SpecQueue == Init /\ [][NextQueue]_vars

\* cancel_upload with the response it answers: always success.
CancelUploadAnswered(session_id) ==
    /\ call' = [fn |-> "cancel_upload", arg |-> <<session_id>>, ret |-> <<200>>]
    /\ IF session_id \in sender_map
       THEN /\ sender_map' = sender_map \ {session_id}
            /\ senders' = [senders EXCEPT ![session_id] = Abort(@)]
       ELSE UNCHANGED <<sender_map, senders>>
    /\ sessions' = MapRemove(sessions, session_id)
    /\ UNCHANGED <<cfg, now, next_id, tasks, marked, completing, history, chunks, n_posts,
                   rmw, merge, files, guild_channels, channel_id, sends>>

\* One upload whose client posts its chunks, calls complete_upload and
\* calls cancel_upload, in any order and overlapping.
NextCancel ==
    \/ \E n \in 1..MaxChunks :
           /\ DOMAIN senders = {}
           /\ InitUpload(NoId, n, TRUE)
    \/ \E sid \in DOMAIN senders, idx \in 0..(MaxChunks - 1) :
           \E body \in Bodies(sid, idx) :
               /\ n_posts < MaxPosts
               /\ UploadChunk(sid, idx, body)
    \/ \E sid \in DOMAIN senders : CompleteUpload(sid)
    \/ \E sid \in DOMAIN senders : CompleteTake(sid)
    \/ \E sid \in DOMAIN senders : CompleteFinish(sid)
    \/ \E sid \in DOMAIN senders : CancelUploadAnswered(sid)
    \/ \E sid \in DOMAIN senders, ok \in BOOLEAN : SenderStart(sid, ok)
    \/ \E sid \in DOMAIN senders : SenderLoop(sid)
    \/ \E sid \in DOMAIN senders : SenderRecv(sid)
    \/ \E sid \in DOMAIN senders : SenderFlush(sid)
    \/ \E sid \in DOMAIN senders : \E p \in 1..Len(tasks[sid]) : TaskAcquire(sid, p)
    \/ \E sid \in DOMAIN senders : \E p \in 1..Len(tasks[sid]), ok \in BOOLEAN :
           TaskFinish(sid, p, ok)

SpecCancel == Init /\ [][NextCancel]_vars

\* One upload of a one-chunk file with mark_chunk_received split at its
\* file accesses, complete_upload and cancel_upload called at any moment,
\* and the GC loop running.
NextSending ==
    \/ /\ DOMAIN senders = {}
       /\ InitUpload(NoId, 1, TRUE)
    \/ \E sid \in DOMAIN senders : \E body \in Bodies(sid, 0) :
           /\ n_posts < MaxPosts
           /\ UploadChunkLoad(sid, 0, body)
    \/ \E op \in rmw : MarkSave(op)
    \/ \E sid \in DOMAIN senders : CompleteUpload(sid)
    \/ \E sid \in DOMAIN senders : CompleteTake(sid)
    \/ \E sid \in DOMAIN senders : CompleteFinish(sid)
    \/ \E sid \in DOMAIN senders : CancelUpload(sid)
    \/ GcTick
    \/ Tick
    \/ \E sid \in DOMAIN senders, ok \in BOOLEAN : SenderStart(sid, ok)
    \/ \E sid \in DOMAIN senders : SenderLoop(sid)
    \/ \E sid \in DOMAIN senders : SenderRecv(sid)
    \/ \E sid \in DOMAIN senders : SenderFlush(sid)
    \/ \E sid \in DOMAIN senders : \E p \in 1..Len(tasks[sid]) : TaskAcquire(sid, p)
    \/ \E sid \in DOMAIN senders : \E p \in 1..Len(tasks[sid]), ok \in BOOLEAN :
           TaskFinish(sid, p, ok)

\* The scheduling handlers run under: a handler that is not waiting for a
\* sender goes on (complete_upload gets the sender_map lock, then its
\* result once the sender has returned or was dropped; mark_chunk_received
\* saves what it loaded), and the GC loop wakes up every gc_interval_s.
HandlerFairness ==
    /\ WF_vars(1 \in DOMAIN senders /\ CompleteTake(1))
    /\ WF_vars(1 \in DOMAIN senders /\ CompleteFinish(1))
    /\ WF_vars(\E op \in rmw : MarkSave(op))
    /\ WF_vars(GcTick)
    /\ WF_vars(Tick)

SpecSending ==
    Init /\ [][NextSending]_vars /\ TaskFairness /\ SenderFairness /\ HandlerFairness

\* The same upload with every upload_chunk running its load and its save
\* without another handler in between.
NextSendingAtomic ==
    \/ /\ DOMAIN senders = {}
       /\ InitUpload(NoId, 1, TRUE)
    \/ \E sid \in DOMAIN senders : \E body \in Bodies(sid, 0) :
           /\ n_posts < MaxPosts
           /\ UploadChunk(sid, 0, body)
    \/ \E sid \in DOMAIN senders : CompleteUpload(sid)
    \/ \E sid \in DOMAIN senders : CompleteTake(sid)
    \/ \E sid \in DOMAIN senders : CompleteFinish(sid)
    \/ \E sid \in DOMAIN senders : CancelUpload(sid)
    \/ GcTick
    \/ Tick
    \/ \E sid \in DOMAIN senders, ok \in BOOLEAN : SenderStart(sid, ok)
    \/ \E sid \in DOMAIN senders : SenderLoop(sid)
    \/ \E sid \in DOMAIN senders : SenderRecv(sid)
    \/ \E sid \in DOMAIN senders : SenderFlush(sid)
    \/ \E sid \in DOMAIN senders : \E p \in 1..Len(tasks[sid]) : TaskAcquire(sid, p)
    \/ \E sid \in DOMAIN senders : \E p \in 1..Len(tasks[sid]), ok \in BOOLEAN :
           TaskFinish(sid, p, ok)

SpecSendingAtomic ==
    Init /\ [][NextSendingAtomic]_vars /\ TaskFairness /\ SenderFairness /\ HandlerFairness

\* ----------------------------------------------------------- download.rs
\* The variables of the upload side.
uploadVars == <<cfg, now, next_id, sessions, sender_map, senders, tasks, marked,
                completing, history, chunks, n_posts, rmw, otherVars>>

\* The unpacked payloads fetch_part returns for the parts of a record, in
\* parts-list order: part j of length lens[j] holds the bytes <<j, k>>.
Payloads(lens) == [j \in 1..Len(lens) |-> ChunkBody(j, lens[j])]

\* Every list of up to MaxMergeParts payload lengths in 0..MaxPayload.
PayloadLengths ==
    UNION {[1..n -> 0..MaxPayload] : n \in 0..MaxMergeParts}

\* merge_to_channel: the channel is created and the task spawned, about to
\* walk the parts list.
NewMerge(lens, buf_size) ==
    [ pc                |-> "fetch",
      payloads          |-> Payloads(lens),
      read_buffer_bytes |-> buf_size,
      i                 |-> 1,
      offset            |-> 0,
      channel           |-> <<>>,
      rx_alive          |-> TRUE,
      delivered         |-> <<>> ]

MergeToChannel(lens, buf_size) ==
    /\ merge.pc = "idle"
    /\ merge' = NewMerge(lens, buf_size)
    /\ UNCHANGED uploadVars

\* A slice that starts one byte late.
SliceSkipsByte(data, offset, end) == SubSeq(data, offset + 2, end)

\* &data[offset..end]
Slice(data, offset, end) == SubSeq(data, offset + 1, end)

\* An item of the channel: Ok(bytes) or Err(e).
OkItem(bytes) == [ok |-> TRUE, bytes |-> bytes]

ErrItem == [ok |-> FALSE, bytes |-> <<>>]

\* tx.send(item).await on the bounded channel: it waits for room, and
\* fails once the receiver is dropped.
CanSend == ~merge.rx_alive \/ Len(merge.channel) < MergeChannelCap

\* A failed fetch that reports the error and goes on with the next part.
MergeFetchContinues(ok) ==
    /\ merge.pc = "fetch"
    /\ IF merge.i > Len(merge.payloads)
       THEN ok /\ merge' = [merge EXCEPT !.pc = "done"]
       ELSE IF ok
       THEN merge' = [merge EXCEPT !.pc = "send", !.offset = 0]
       ELSE /\ CanSend
            /\ merge' = [merge EXCEPT
                   !.i = @ + 1,
                   !.channel = IF merge.rx_alive THEN Append(@, ErrItem) ELSE @]
    /\ UNCHANGED uploadVars

\* The for loop reaches the next part: fetch_part succeeds or fails; past
\* the last part the task returns.
MergeFetch(ok) ==
    /\ merge.pc = "fetch"
    /\ IF merge.i > Len(merge.payloads)
       THEN ok /\ merge' = [merge EXCEPT !.pc = "done"]
       ELSE IF ok
       THEN merge' = [merge EXCEPT !.pc = "send", !.offset = 0]
       ELSE /\ CanSend
            /\ merge' = [merge EXCEPT
                   !.pc = "failed",
                   !.channel = IF merge.rx_alive THEN Append(@, ErrItem) ELSE @]
    /\ UNCHANGED uploadVars

\* A while loop that ignores a failed send and goes on with the next slice.
MergeSendIgnoresDisconnect ==
    LET data == merge.payloads[merge.i]
        end  == Min(merge.offset + merge.read_buffer_bytes, Len(data))
    IN  /\ merge.pc = "send"
        /\ IF merge.offset < Len(data)
           THEN /\ CanSend
                /\ merge' = [merge EXCEPT
                       !.channel = IF merge.rx_alive
                                   THEN Append(@, OkItem(Slice(data, merge.offset, end)))
                                   ELSE @,
                       !.offset = end]
           ELSE merge' = [merge EXCEPT !.pc = "fetch", !.i = @ + 1]
        /\ UNCHANGED uploadVars

\* One turn of the while loop: a slice of at most read_buffer_bytes is
\* sent, or the task returns because the receiver is gone; at the end of
\* the data the loop moves to the next part.
MergeSend ==
    LET data == merge.payloads[merge.i]
        end  == Min(merge.offset + merge.read_buffer_bytes, Len(data))
    IN  /\ merge.pc = "send"
        /\ IF merge.offset < Len(data)
           THEN /\ CanSend
                /\ merge' = IF merge.rx_alive
                            THEN [merge EXCEPT
                                     !.channel = Append(@, OkItem(Slice(data, merge.offset, end))),
                                     !.offset = end]
                            ELSE [merge EXCEPT !.pc = "stopped"]
           ELSE merge' = [merge EXCEPT !.pc = "fetch", !.i = @ + 1]
        /\ UNCHANGED uploadVars

\* The consumer takes the next item.
ConsumerRecv ==
    /\ merge.rx_alive
    /\ merge.channel # <<>>
    /\ merge' = [merge EXCEPT !.delivered = Append(@, Head(merge.channel)),
                              !.channel = Tail(@)]
    /\ UNCHANGED uploadVars

\* The consumer disconnects: the receiver and the items in it are dropped.
ConsumerDrop ==
    /\ merge.rx_alive
    /\ merge' = [merge EXCEPT !.rx_alive = FALSE, !.channel = <<>>]
    /\ UNCHANGED uploadVars

\* One download: merge_to_channel is called once, on any parts list.
NextMerge ==
    \/ \E lens \in PayloadLengths, buf_size \in 1..MaxReadBuffer :
           MergeToChannel(lens, buf_size)
    \/ \E ok \in BOOLEAN : MergeFetch(ok)
    \/ MergeSend
    \/ ConsumerRecv
    \/ ConsumerDrop

SpecMerge == Init /\ [][NextMerge]_vars

\* ------------------------------------------------ download.rs, the parts list
\* Option<T>: None is the empty sequence, Some(v) the sequence <<v>>.
None == <<>>

Some(v) == <<v>>

\* A synthesized list numbered from zero.
normalize_parts_zero_based(record) ==
    IF record.parts_info # <<>> THEN record.parts_info
    ELSE [i \in 1..Len(record.message_ids) |->
              [ part       |-> i - 1,
                platform   |-> "discord",
                message_id |-> record.message_ids[i],
                channel_id |-> Some(record.channel_id),
                file_id    |-> None,
                jump_url   |-> None ]]

\* normalize_parts: parts_info when it is non-empty, else one PartInfo per
\* entry of message_ids (i of the code is zero-based, the index here is
\* i + 1).
normalize_parts(record) ==
    IF record.parts_info # <<>> THEN record.parts_info
    ELSE [i \in 1..Len(record.message_ids) |->
              [ part       |-> i,
                platform   |-> "discord",
                message_id |-> record.message_ids[i],
                channel_id |-> Some(record.channel_id),
                file_id    |-> None,
                jump_url   |-> None ]]

\* The PartInfos stored records carry: parts of both backends, numbered in
\* and out of order.
StoredPartInfos ==
    { [ part |-> 1, platform |-> "discord", message_id |-> 11,
        channel_id |-> Some("c1"), file_id |-> None, jump_url |-> Some("u1") ],
      [ part |-> 2, platform |-> "telegram", message_id |-> 12,
        channel_id |-> None, file_id |-> Some("f2"), jump_url |-> None ],
      [ part |-> 3, platform |-> "discord", message_id |-> 13,
        channel_id |-> Some("c2"), file_id |-> None, jump_url |-> None ] }

\* The fields of a FileRecord normalize_parts reads.
FileRecords ==
    [ parts_info  : UNION {[1..n -> StoredPartInfos] : n \in 0..MaxRecordParts},
      message_ids : UNION {[1..n -> {21, 22}] : n \in 0..MaxRecordParts},
      channel_id  : {"c1", "c2"} ]

\* normalize_parts is about to be called on any record.
InitNormalize ==
    /\ cfg \in Configs
    /\ now = 0
    /\ next_id = 1
    /\ sessions = EmptyMap
    /\ sender_map = {}
    /\ senders = EmptyMap
    /\ tasks = EmptyMap
    /\ marked = {}
    /\ completing = {}
    /\ history = <<>>
    /\ chunks = EmptyMap
    /\ n_posts = 0
    /\ rmw = {}
    /\ merge = NoMerge
    /\ call \in {[fn |-> "normalize_parts", arg |-> r, ret |-> None] : r \in FileRecords}
    /\ files = NoFiles
    /\ guild_channels = <<>>
    /\ channel_id = EmptyMap
    /\ sends = EmptyMap

\* Every variable but call.
notCall == <<cfg, now, next_id, sessions, sender_map, senders, tasks, marked,
             completing, history, chunks, n_posts, rmw, merge, files,
             guild_channels, channel_id, sends>>

NormalizeParts ==
    /\ call.fn = "normalize_parts"
    /\ call.ret = None
    /\ call' = [call EXCEPT !.ret = Some(normalize_parts(call.arg))]
    /\ UNCHANGED notCall

SpecNormalize == InitNormalize /\ [][NormalizeParts]_vars

\* ----------------------------------------------------------- zip_utils.rs
\* b"PK\x03\x04"
ZipMagic == <<80, 75, 3, 4>>

HasMagic(data) == ~(Len(data) < 4 \/ SubSeq(data, 1, 4) # ZipMagic)

\* The archives of the model: the magic, one byte giving the length of the
\* stored entry, and exactly that many entry bytes.  Everything else that
\* starts with the magic is an archive ZipArchive cannot read.
Readable(data) ==
    /\ Len(data) >= 5
    /\ Len(data) = 5 + data[5]

\* ZipArchive::new, by_index(0), read_to_end.
FirstEntry(data) == SubSeq(data, 6, Len(data))

\* An unpack that hands back the raw bytes when the archive is unreadable.
unzip_or_raw_lenient(data) ==
    IF ~HasMagic(data) THEN [ok |-> TRUE, bytes |-> data]
    ELSE IF ~Readable(data) THEN [ok |-> TRUE, bytes |-> data]
    ELSE [ok |-> TRUE, bytes |-> FirstEntry(data)]

\* unzip_or_raw: Ok(data), Ok(out) or the error of one of the three `?`.
unzip_or_raw(data) ==
    IF ~HasMagic(data) THEN [ok |-> TRUE, bytes |-> data]
    ELSE IF ~Readable(data) THEN [ok |-> FALSE, bytes |-> <<>>]
    ELSE [ok |-> TRUE, bytes |-> FirstEntry(data)]

\* The byte values inputs are made of: those of the magic, and 0 and 1.
UnzipBytes == {0, 1, 3, 4, 75, 80}

UnzipInputs == UNION {[1..n -> UnzipBytes] : n \in 0..MaxUnzipLen}

\* unzip_or_raw is about to be called on any input.
InitUnzip ==
    /\ cfg \in Configs
    /\ now = 0
    /\ next_id = 1
    /\ sessions = EmptyMap
    /\ sender_map = {}
    /\ senders = EmptyMap
    /\ tasks = EmptyMap
    /\ marked = {}
    /\ completing = {}
    /\ history = <<>>
    /\ chunks = EmptyMap
    /\ n_posts = 0
    /\ rmw = {}
    /\ merge = NoMerge
    /\ call \in {[fn |-> "unzip_or_raw", arg |-> d, ret |-> None] : d \in UnzipInputs}
    /\ files = NoFiles
    /\ guild_channels = <<>>
    /\ channel_id = EmptyMap
    /\ sends = EmptyMap

UnzipOrRaw ==
    /\ call.fn = "unzip_or_raw"
    /\ call.ret = None
    /\ call' = [call EXCEPT !.ret = Some(unzip_or_raw(call.arg))]
    /\ UNCHANGED notCall

SpecUnzip == InitUnzip /\ [][UnzipOrRaw]_vars

\* ------------------------------------------------------------- storage.rs
\* The three state documents (config.rs: folders_file, history_file,
\* sessions_file).
StateFiles == {"folders.json", "file_history.json", "upload_sessions.json"}

\* The text of a file is a sequence of tokens: the brackets of a JSON array
\* and of a JSON object, "e" for one well-formed element or entry with its
\* separator, and "?" for bytes that are no JSON and no UTF-8.
DocTokens == {"[", "]", "{", "}", "e", "?"}

DocTexts == UNION {[1..n -> DocTokens] : n \in 0..MaxDocLen}

\* The collection type T a document is loaded as: Vec for folders and
\* history, HashMap for sessions.
DocKind(filename) == IF filename = "upload_sessions.json" THEN "map" ELSE "list"

\* T::default()
DefaultDoc(filename) == [kind |-> DocKind(filename), len |-> 0]

\* fs::read_to_string(..).and_then(serde_json::from_str) succeeds: the text
\* is the opening bracket of T, elements, and the closing bracket of T.
Parses(text, kind) ==
    /\ Len(text) >= 2
    /\ text[1] = (IF kind = "map" THEN "{" ELSE "[")
    /\ text[Len(text)] = (IF kind = "map" THEN "}" ELSE "]")
    /\ \A k \in 2..(Len(text) - 1) : text[k] = "e"

\* A load that keeps the elements it could read of a damaged file.
load_json_keeps_elements(filename) ==
    IF filename \notin DOMAIN files THEN DefaultDoc(filename)
    ELSE [ kind |-> DocKind(filename),
           len  |-> Cardinality({k \in 1..Len(files[filename]) :
                                     files[filename][k] = "e"}) ]

\* load_json: the default when the path does not exist, the parsed value,
\* or the default with a warning when reading or parsing fails.
load_json(filename) ==
    IF filename \notin DOMAIN files THEN DefaultDoc(filename)
    ELSE IF Parses(files[filename], DocKind(filename))
    THEN [kind |-> DocKind(filename), len |-> Len(files[filename]) - 2]
    ELSE DefaultDoc(filename)

\* The data directory holds no document, or one document with any text.
InitLoad ==
    /\ cfg \in Configs
    /\ now = 0
    /\ next_id = 1
    /\ sessions = EmptyMap
    /\ sender_map = {}
    /\ senders = EmptyMap
    /\ tasks = EmptyMap
    /\ marked = {}
    /\ completing = {}
    /\ history = <<>>
    /\ chunks = EmptyMap
    /\ n_posts = 0
    /\ rmw = {}
    /\ merge = NoMerge
    /\ call = NoCall
    /\ files \in {NoFiles} \cup
                 {MapInsert(NoFiles, f, t) : f \in StateFiles, t \in DocTexts}
    /\ guild_channels = <<>>
    /\ channel_id = EmptyMap
    /\ sends = EmptyMap

\* One call of load_json: it reads the file and writes nothing.
LoadJson(filename) ==
    /\ call' = [fn |-> "load_json", arg |-> filename, ret |-> Some(load_json(filename))]
    /\ UNCHANGED notCall

NextLoad == \E filename \in StateFiles : LoadJson(filename)

SpecLoad == InitLoad /\ [][NextLoad]_vars

\* --------------------------------------------------------- discord_bot.rs
\* A name is the sequence of its characters.  The characters names are
\* made of: a lower-case and an upper-case letter, the space, the dash, the
\* dot, and a character sanitize_name filters out.
NameChars == {"a", "A", " ", "-", ".", "!"}

FileNames == UNION {[1..n -> NameChars] : n \in 0..MaxNameLen}

\* Path::new(name).file_stem(), or name when there is none: the name up to
\* its last dot, unless that dot is its first character.
FileStem(name) ==
    LET dots == {i \in 1..Len(name) : name[i] = "."}
        last == CHOOSE i \in dots : \A j \in dots : j <= i
    IN  IF name \in {<<>>, <<".">>, <<".", ".">>} \/ dots = {} THEN name
        ELSE IF last = 1 THEN name
        ELSE SubSeq(name, 1, last - 1)

ToLowercase(name) == [i \in 1..Len(name) |-> IF name[i] = "A" THEN "a" ELSE name[i]]

\* c.is_ascii_alphanumeric() || c == '-' || c == '_' || c == ' '
KeptChar(c) == c \in {"a", "A", "-", "_", " "}

RECURSIVE Filter(_)
Filter(name) ==
    IF name = <<>> THEN <<>>
    ELSE IF KeptChar(Head(name)) THEN <<Head(name)>> \o Filter(Tail(name))
    ELSE Filter(Tail(name))

\* trim_matches(c) (and trim() for the space).
RECURSIVE TrimStart(_, _)
TrimStart(name, c) ==
    IF name # <<>> /\ Head(name) = c THEN TrimStart(Tail(name), c) ELSE name

RECURSIVE TrimEnd(_, _)
TrimEnd(name, c) ==
    IF name # <<>> /\ name[Len(name)] = c
    THEN TrimEnd(SubSeq(name, 1, Len(name) - 1), c)
    ELSE name

TrimMatches(name, c) == TrimEnd(TrimStart(name, c), c)

\* replace(' ', "-")
Dashed(name) == [i \in 1..Len(name) |-> IF name[i] = " " THEN "-" ELSE name[i]]

\* The loop that pushes a dash only when the last pushed was none.
RECURSIVE CollapseDashes(_, _)
CollapseDashes(name, last_dash) ==
    IF name = <<>> THEN <<>>
    ELSE IF Head(name) = "-"
    THEN (IF last_dash THEN <<>> ELSE <<"-">>) \o CollapseDashes(Tail(name), TRUE)
    ELSE <<Head(name)>> \o CollapseDashes(Tail(name), FALSE)

\* chars().take(100)
Take(name, n) == SubSeq(name, 1, Min(Len(name), n))

\* sanitize_name: stem, lower case, filter, trim, dashes for spaces, runs
\* of dashes collapsed, dashes trimmed, "file" when nothing is left.
sanitize_name(name) ==
    LET trimmed == TrimMatches(
                       CollapseDashes(
                           Dashed(TrimMatches(Filter(ToLowercase(FileStem(name))), " ")),
                           FALSE),
                       "-")
    IN  IF trimmed = <<>> THEN <<"f", "i", "l", "e">> ELSE Take(trimmed, NameCap)

\* The categories a folder can name: none, or the category with id 1.
Categories == {None, Some(1)}

\* get_or_create_channel's lookup: the text channels whose lower-cased name
\* is the sanitized name and, when a category is given, whose parent it is.
\* The id of a channel is its position in guild_channels.
MatchingChannels(file_name, category_id) ==
    {id \in 1..Len(guild_channels) :
        /\ ToLowercase(guild_channels[id].name) = sanitize_name(file_name)
        /\ (category_id = None \/ guild_channels[id].parent_id = category_id)}

\* init_upload without a prior id: 500 when the guild cannot be reached;
\* else the channel get_or_create_channel finds (any of those that match,
\* the channels being iterated in hash order) or creates becomes the
\* session's channel_id, and the session and its sender are created.
InitUploadChannel(filename, category_id, total_chunks, channel_ok) ==
    IF ~channel_ok THEN UNCHANGED vars
    ELSE LET found == MatchingChannels(filename, category_id)
         IN  /\ \E ch \in (IF found # {} THEN found ELSE {Len(guild_channels) + 1}) :
                    channel_id' = MapInsert(channel_id, next_id, ch)
             /\ guild_channels' =
                    IF found # {} THEN guild_channels
                    ELSE Append(guild_channels,
                                [ name      |-> sanitize_name(filename),
                                  parent_id |-> category_id ])
             /\ sessions' = MapInsert(sessions, next_id, NewSession(total_chunks))
             /\ senders' = MapInsert(senders, next_id, NewSender(total_chunks))
             /\ tasks' = MapInsert(tasks, next_id, <<>>)
             /\ chunks' = MapInsert(chunks, next_id, EmptyMap)
             /\ sender_map' = sender_map \cup {next_id}
             /\ next_id' = next_id + 1
             /\ UNCHANGED <<cfg, now, marked, completing, history, n_posts, rmw, merge,
                            call, files, sends>>

\* Uploads of files of any name, with and without a folder; a client may
\* cancel an upload.
NextChannel ==
    \/ \E filename \in FileNames, category_id \in Categories, n \in 1..MaxSessionPosts,
          ok \in BOOLEAN :
           /\ next_id <= MaxSessions
           /\ InitUploadChannel(filename, category_id, n, ok)
    \/ \E sid \in Ids : CancelUpload(sid)
    \/ \E sid \in DOMAIN senders, ok \in BOOLEAN : SenderStart(sid, ok)

SpecChannel == Init /\ [][NextChannel]_vars

\* =============================================================== claims
\* The payloads of the parts a sender dispatched, in part-number order.
PartsData(sid) == [p \in 1..Len(tasks[sid]) |-> tasks[sid][p].data]

\* The indices of the file: 0..total_chunks-1.
FileIndices(sid) == 0..(senders[sid].total_chunks - 1)

AllPosted(sid) == FileIndices(sid) \subseteq DOMAIN chunks[sid]

\* The chunk payloads 0..total_chunks-1 in index order.
FileBytes(sid) == Flatten([i \in 1..senders[sid].total_chunks |-> chunks[sid][i - 1]])

\* The payloads a FileRecord's parts_info points at, in parts_info order.
RecordBytes(rec) ==
    Flatten([i \in 1..Len(rec.parts_info) |->
                 tasks[rec.session_id][rec.parts_info[i].part].data])

Delivered(sid) == senders[sid].result.kind = "ok"

Sorted(s) == \A i, j \in 1..Len(s) : i < j => s[i] <= s[j]

Unique(s) == \A i, j \in 1..Len(s) : i # j => s[i] # s[j]

\* C1 (as claimed): for every upload of one chunk or more on which
\* complete_upload succeeded, its chunks 0..total_chunks-1 all posted, the payloads of the
\* record's parts, concatenated in part order, are the chunk payloads
\* 0..total_chunks-1 concatenated in index order.
C1_RecordBytesAreFileBytes ==
    \A i \in 1..Len(history) :
        (senders[history[i].session_id].total_chunks > 0 /\ AllPosted(history[i].session_id))
            => RecordBytes(history[i]) = FileBytes(history[i].session_id)

\* The same for uploads on which only indices below total_chunks were posted.
C1_InRangeRecordBytesAreFileBytes ==
    \A i \in 1..Len(history) :
        DOMAIN chunks[history[i].session_id] = FileIndices(history[i].session_id)
            => RecordBytes(history[i]) = FileBytes(history[i].session_id)

\* C2 (as claimed): while complete_upload holds a session's closed queue
\* (it dropped chunk_tx and awaits the result), every chunk
\* 0..total_chunks-1 of the session has been written to the sender's queue.
C2_ClosedOnlyWhenAllWritten ==
    \A sid \in completing : AllPosted(sid)

\* C3 (as claimed): received_chunks of every stored session is sorted, has
\* no duplicates, and holds only indices in [0, total_chunks).
C3_ReceivedSortedUniqueInRange ==
    \A sid \in DOMAIN sessions :
        LET rc == sessions[sid].received_chunks
        IN  /\ Sorted(rc)
            /\ Unique(rc)
            /\ \A i \in 1..Len(rc) : rc[i] >= 0 /\ rc[i] < sessions[sid].total_chunks

\* The part of C3 the code keeps: sorted and without duplicates.
C3_ReceivedSortedUnique ==
    \A sid \in DOMAIN sessions :
        Sorted(sessions[sid].received_chunks) /\ Unique(sessions[sid].received_chunks)

\* C4: every delivered SenderResult has parts_info[i].part = i for the
\* 1-based position i (part == i+1 for the 0-based one) and as many
\* entries as parts.
C4_PartsInfoSorted ==
    \A sid \in DOMAIN senders :
        Delivered(sid) =>
            LET r == senders[sid].result
            IN  /\ Len(r.parts_info) = r.parts
                /\ \A i \in 1..Len(r.parts_info) : r.parts_info[i].part = i

\* A result of two or more parts whose dispatch tasks were reaped out of
\* part order.
C4_Witness ==
    \E sid \in DOMAIN senders :
        /\ Delivered(sid)
        /\ senders[sid].result.parts >= 2
        /\ senders[sid].all_parts # senders[sid].result.parts_info

\* C5: part k is sent to backend B iff B is enabled and k is even, both for
\* the dispatched task and for the platform its PartInfo reports.
C5_Routing ==
    \A sid \in DOMAIN senders :
        /\ \A k \in 1..Len(tasks[sid]) :
               /\ tasks[sid][k].part = k
               /\ tasks[sid][k].use_tg <=> (cfg.tg_enabled /\ k % 2 = 0)
        /\ \A i \in 1..Len(senders[sid].all_parts) :
               LET pi == senders[sid].all_parts[i]
               IN  /\ pi.platform \in {"discord", "telegram"}
                   /\ pi.platform = "telegram" <=> (cfg.tg_enabled /\ pi.part % 2 = 0)

\* With B enabled, a delivered result of three parts on A, B, A.
C5_Witness ==
    \E sid \in DOMAIN senders :
        /\ cfg.tg_enabled
        /\ Delivered(sid)
        /\ Len(senders[sid].result.parts_info) = 3
        /\ senders[sid].result.parts_info[1].platform = "discord"
        /\ senders[sid].result.parts_info[2].platform = "telegram"
        /\ senders[sid].result.parts_info[3].platform = "discord"

\* C6: every dispatched part holds at least one byte and at most
\* input_limit bytes.
C6_PartSizes ==
    \A sid \in DOMAIN senders : \A k \in 1..Len(tasks[sid]) :
        Len(tasks[sid][k].data) > 0 /\ Len(tasks[sid][k].data) <= InputLimit

\* A sender that cut a full part and then, its queue closed, flushed a
\* short one.
C6_Witness ==
    \E sid \in DOMAIN senders :
        /\ senders[sid].pc = "flush"
        /\ Len(tasks[sid]) >= 2
        /\ Len(tasks[sid][1].data) = InputLimit
        /\ Len(tasks[sid][Len(tasks[sid])].data) < InputLimit

\* C7: a result delivered for a session on which exactly the chunks
\* 0..total_chunks-1 were posted, N > 0 bytes in all, has ceil(N /
\* input_limit) parts; each but the last holds input_limit bytes and the
\* last holds the rest.
C7_PartCount ==
    \A sid \in DOMAIN senders :
        (Delivered(sid) /\ DOMAIN chunks[sid] = FileIndices(sid) /\ Len(FileBytes(sid)) > 0)
            => LET n     == Len(FileBytes(sid))
                   parts == (n + InputLimit - 1) \div InputLimit
               IN  /\ Len(tasks[sid]) = parts
                   /\ senders[sid].result.parts = parts
                   /\ \A k \in 1..(parts - 1) : Len(tasks[sid][k].data) = InputLimit
                   /\ Len(tasks[sid][parts].data) = n - (parts - 1) * InputLimit

\* Two chunks of 20 bytes in all delivered as parts of 8, 8 and 4 bytes.
C7_Witness ==
    \E sid \in DOMAIN senders :
        /\ Delivered(sid)
        /\ DOMAIN chunks[sid] = FileIndices(sid)
        /\ senders[sid].total_chunks = 2
        /\ Len(FileBytes(sid)) = 20
        /\ Len(tasks[sid]) = 3
        /\ Len(tasks[sid][3].data) = 4

\* C8: the method of a delivered result is "direct" iff it has one part;
\* otherwise "dual" with B enabled and "split" without.
C8_Method ==
    \A sid \in DOMAIN senders :
        Delivered(sid) =>
            LET r == senders[sid].result
            IN  /\ r.method = "direct" <=> r.parts = 1
                /\ r.parts # 1 => r.method = IF cfg.tg_enabled THEN "dual" ELSE "split"

\* With B enabled, a delivered result of several parts, classified "dual".
C8_Witness ==
    \E sid \in DOMAIN senders :
        /\ Delivered(sid)
        /\ senders[sid].result.parts >= 2
        /\ senders[sid].result.method = "dual"

\* The three conditions of the resume rule: the record exists, its status
\* is "uploading", and sender_map holds a SenderEntry for the id.
ThreeConditions(r) ==
    /\ r \in DOMAIN sessions
    /\ sessions[r].status = "uploading"
    /\ r \in sender_map

\* The old session is gone after the step: no SenderEntry, no record.
PurgedAfter(r) == r \notin sender_map' /\ r \notin DOMAIN sessions'

\* The step created a fresh session: a new id, a record in "uploading" with
\* no received chunks, and a SenderEntry.
FreshAfter ==
    /\ next_id' = next_id + 1
    /\ next_id \in DOMAIN sessions'
    /\ sessions'[next_id].status = "uploading"
    /\ sessions'[next_id].received_chunks = <<>>
    /\ next_id \in sender_map'

\* C9 (as claimed): init_upload with a prior id resumes iff the three
\* conditions hold, and in every other case purges the old session and
\* creates a fresh one.
C9_ResumeElsePurgeAndCreate ==
    [][\A r \in 1..(next_id - 1), n \in 0..MaxChunks, ok \in BOOLEAN :
           InitUpload(r, n, ok) =>
               IF ThreeConditions(r)
               THEN UNCHANGED vars
               ELSE PurgedAfter(r) /\ FreshAfter]_vars

\* C9 (amended): init_upload with a prior id answers with the stored
\* session, changing nothing, iff the three conditions hold; in every other
\* case it purges the old session, and it creates a fresh one exactly when
\* the channel on backend A could be created: when that fails it answers
\* 500 with the old session purged and no session created.
C9_ResumeElsePurge ==
    /\ [](\A r \in 1..(next_id - 1), ok \in BOOLEAN :
              /\ ThreeConditions(r) <=>
                     (InitResponse(r, ok).status = 200 /\ InitResponse(r, ok).session_id = r)
              /\ ThreeConditions(r) =>
                     InitResponse(r, ok).received_chunks = sessions[r].received_chunks
              /\ ~ThreeConditions(r) =>
                     InitResponse(r, ok).status = IF ok THEN 200 ELSE 500)
    /\ [][\A r \in 1..(next_id - 1), n \in 0..MaxChunks, ok \in BOOLEAN :
              InitUpload(r, n, ok) =>
                  IF ThreeConditions(r)
                  THEN UNCHANGED vars
                  ELSE /\ PurgedAfter(r)
                       /\ ok => FreshAfter
                       /\ ~ok => /\ next_id' = next_id
                                 /\ DOMAIN sessions' = DOMAIN sessions \ {r}
                                 /\ sender_map' = sender_map \ {r}]_vars

\* init_upload found session 1 not resumable and could not create a
\* channel: session 1 lost its record and its SenderEntry while its sender
\* was neither awaited by complete_upload nor aborted, and no second
\* session was created.
C9_Witness ==
    /\ next_id = 2
    /\ 1 \notin DOMAIN sessions
    /\ 1 \notin sender_map
    /\ 1 \notin completing
    /\ RxAlive(senders[1])

\* C10 (as claimed): init_upload with a prior id answers with that same id
\* iff sender_map still holds a SenderEntry for it.
C10_SameIdIffEntry ==
    \A r \in 1..(next_id - 1), ok \in BOOLEAN :
        (InitResponse(r, ok).session_id = r) <=> r \in sender_map

\* C10 (amended): init_upload with a prior id answers with that same id
\* iff sender_map holds a SenderEntry for it and the record exists in
\* status "uploading"; otherwise the old session is purged, and the answer
\* carries a newly minted id when the channel on backend A could be created
\* and no id when it could not.
C10_SameIdIffEntryAndRecord ==
    /\ [](\A r \in 1..(next_id - 1), ok \in BOOLEAN :
              LET id == InitResponse(r, ok).session_id
              IN  /\ id = r <=> (r \in sender_map /\ r \in DOMAIN sessions
                                   /\ sessions[r].status = "uploading")
                  /\ id # r => /\ id = IF ok THEN next_id ELSE NoId
                               /\ id \notin DOMAIN senders)
    /\ [][\A r \in 1..(next_id - 1), n \in 0..MaxChunks, ok \in BOOLEAN :
              (InitUpload(r, n, ok) /\ InitResponse(r, ok).session_id # r)
                  => /\ PurgedAfter(r)
                     /\ ok => InitResponse(r, ok).session_id \in sender_map']_vars

\* The GC removed the record of a session whose SenderEntry remains, and
\* init_upload with that id answers with a newly minted id.
C10_Witness ==
    \E r \in sender_map :
        /\ r \notin DOMAIN sessions
        /\ next_id <= MaxSessions
        /\ InitResponse(r, TRUE).session_id = next_id

\* C11: a resume that succeeds answers 200 with the session's id and the
\* received_chunks stored for it, and the init_upload step changes nothing:
\* no record, no SenderEntry, no sender, no dispatch task, and no id minted
\* (a channel is obtained only on the path that mints an id).
C11_ResumeChangesNothing ==
    /\ [](\A r \in 1..(next_id - 1), ok \in BOOLEAN :
              ThreeConditions(r) =>
                  InitResponse(r, ok) =
                      [ status |-> 200, session_id |-> r,
                        received_chunks |-> sessions[r].received_chunks ])
    /\ [][\A r \in 1..(next_id - 1), n \in 0..MaxChunks, ok \in BOOLEAN :
              (ThreeConditions(r) /\ InitUpload(r, n, ok)) =>
                  /\ sessions' = sessions
                  /\ sender_map' = sender_map
                  /\ senders' = senders
                  /\ tasks' = tasks
                  /\ next_id' = next_id]_vars

\* A session with a chunk received that init_upload resumes: the answer
\* carries its id and the stored chunk list.
C11_Witness ==
    \E r \in 1..(next_id - 1) :
        /\ ThreeConditions(r)
        /\ sessions[r].received_chunks # <<>>
        /\ InitResponse(r, TRUE).session_id = r
        /\ InitResponse(r, TRUE).received_chunks = sessions[r].received_chunks

\* C12 (as claimed): the status of a stored session only moves from
\* "uploading" to "sending", and the record of an id that was created and
\* is no longer stored never comes back.
C12_StatusOnlyForward ==
    [][\A sid \in 1..(next_id - 1) :
           /\ (sid \in DOMAIN sessions /\ sid \in DOMAIN sessions') =>
                  \/ sessions'[sid].status = sessions[sid].status
                  \/ sessions[sid].status = "uploading" /\ sessions'[sid].status = "sending"
           /\ sid \notin DOMAIN sessions => sid \notin DOMAIN sessions']_vars

C14_GcRemovesExpiredUploading ==
    [][GcTick =>
           /\ \A sid \in DOMAIN sessions :
                  IF sessions[sid].status = "uploading"
                         /\ now - sessions[sid].created_at > cfg.session_ttl
                  THEN sid \notin DOMAIN sessions'
                  ELSE sid \in DOMAIN sessions' /\ sessions'[sid] = sessions[sid]
           /\ DOMAIN sessions' \subseteq DOMAIN sessions
           /\ sender_map' = sender_map]_vars

\* After a GC tick that removed an expired "uploading" session (its
\* SenderEntry remains) and kept a "sending" session older than the TTL.
C14_Witness ==
    \E a \in sender_map, b \in DOMAIN sessions :
        /\ a \notin DOMAIN sessions
        /\ sessions[b].status = "sending"
        /\ now - sessions[b].created_at > cfg.session_ttl

\* Some part-dispatch task of the session returned an error.
PartFailed(sid) == \E p \in 1..Len(tasks[sid]) : tasks[sid][p].st = "err"

C16_CancelDropsDispatchTasks ==
    /\ [][\A sid \in DOMAIN senders :
              CancelUpload(sid) =>
                  /\ sid \notin sender_map'
                  /\ sid \notin DOMAIN sessions'
                  /\ (sid \in sender_map /\ RxAlive(senders[sid])) =>
                         senders'[sid].pc = "aborted"]_vars
    /\ [][\A sid \in DOMAIN senders :
              senders[sid].pc = "aborted" =>
                  \A p \in 1..Len(tasks[sid]) :
                      tasks[sid][p].st = "waiting" => tasks'[sid][p].st = "waiting"]_vars

\* The part of C16 the code keeps: the effects of cancel_upload itself.
C16_CancelRemovesEntryAndRecord ==
    [][\A sid \in DOMAIN senders :
           CancelUpload(sid) =>
               /\ sid \notin sender_map'
               /\ sid \notin DOMAIN sessions'
               /\ (sid \in sender_map /\ RxAlive(senders[sid])) =>
                      senders'[sid].pc = "aborted"]_vars

\* C17 (as claimed): upload_chunk with a non-empty body on a session that
\* cancel_upload aborted answers 500.
C17_ChunkAfterCancelIs500 ==
    \A sid \in DOMAIN senders :
        senders[sid].pc = "aborted" =>
            \A len \in ChunkSizes \ {0} : ChunkStatus(sid, ChunkBody(0, len)) = 500

\* C17 (amended): upload_chunk with a non-empty body on a session that
\* cancel_upload aborted answers 404, the record being deleted; 500 is the
\* answer on a session whose record is stored while its SenderEntry is gone
\* or its sender has dropped the queue's receiver.
C17_ChunkAfterCancelIs404 ==
    \A sid \in DOMAIN senders : \A len \in ChunkSizes \ {0} :
        /\ senders[sid].pc = "aborted" => ChunkStatus(sid, ChunkBody(0, len)) = 404
        /\ (sid \in DOMAIN sessions /\ (sid \notin sender_map \/ ~RxAlive(senders[sid])))
               => ChunkStatus(sid, ChunkBody(0, len)) = 500

\* A cancelled session, its sender aborted and its record deleted, on which
\* a chunk post is answered 404.
C17_Witness ==
    \E sid \in DOMAIN senders :
        /\ senders[sid].pc = "aborted"
        /\ sid \notin sender_map
        /\ sid \notin DOMAIN sessions
        /\ ChunkStatus(sid, ChunkBody(0, 6)) = 404

\* Part p of the session was dispatched and has not acquired its permit.
WaitsForPermit(sid, p) ==
    sid \in DOMAIN tasks /\ p <= Len(tasks[sid]) /\ tasks[sid][p].st = "waiting"

\* C18: within one sender at most discord_parallel_sends tasks hold a
\* permit of backend A and at most tg_parallel_sends one of backend B; and
\* a task waiting for a permit eventually acquires one.
C18_PermitsCapAndAreReleased ==
    /\ [](\A sid \in DOMAIN tasks :
              /\ Cardinality(Running(tasks[sid], FALSE)) <= cfg.discord_parallel_sends
              /\ Cardinality(Running(tasks[sid], TRUE)) <= cfg.tg_parallel_sends)
    /\ \A p \in PartNumbers : WaitsForPermit(1, p) ~> ~WaitsForPermit(1, p)

\* With one permit for backend A: a part of A holds the permit after an
\* earlier part of A failed and released it.
C18_Witness ==
    \E sid \in DOMAIN tasks : \E p \in 1..Len(tasks[sid]), q \in 1..Len(tasks[sid]) :
        /\ cfg.discord_parallel_sends = 1
        /\ p < q
        /\ ~tasks[sid][p].use_tg /\ ~tasks[sid][q].use_tg
        /\ tasks[sid][p].st = "err"
        /\ tasks[sid][q].st = "running"

\* C19 (as claimed): the jump_url of every FileRecord with a part is the
\* jump URL the PartInfo of part 1 carries.
C19_JumpUrlIsPartOne ==
    \A i \in 1..Len(history) :
        history[i].parts_info # <<>> =>
            /\ history[i].parts_info[1].part = 1
            /\ history[i].jump_url = history[i].parts_info[1].jump_url

\* What the code stores: the first URL in the order the sender reaped the
\* parts of backend A.
C19_JumpUrlIsFirstReaped ==
    \A i \in 1..Len(history) :
        LET sid == history[i].session_id
        IN  history[i].jump_url =
                IF senders[sid].jump_urls = <<>> THEN <<>>
                ELSE <<Head(senders[sid].jump_urls)>>

\* The bytes of a sequence of channel items, in order.
ItemBytes(items) == Flatten([k \in 1..Len(items) |-> items[k].bytes])

\* s is a prefix of t.
IsPrefix(s, t) == Len(s) <= Len(t) /\ SubSeq(t, 1, Len(s)) = s

\* C20: every item merge_to_channel sends for a fetched part is non-empty
\* and at most read_buffer_bytes long; the items sent so far, concatenated
\* in order, are a prefix of the concatenation of the unpacked payloads in
\* parts-list order; and once every part was fetched and the consumer has
\* taken every item, the delivered items are all Ok and concatenate to
\* exactly that concatenation.
C20_MergeDeliversPayloads ==
    LET items == merge.delivered \o merge.channel
    IN  /\ \A k \in 1..Len(items) :
               items[k].ok => /\ Len(items[k].bytes) > 0
                              /\ Len(items[k].bytes) <= merge.read_buffer_bytes
        /\ IsPrefix(ItemBytes(items), Flatten(merge.payloads))
        /\ (merge.pc = "done" /\ merge.rx_alive /\ merge.channel = <<>>) =>
               /\ \A k \in 1..Len(merge.delivered) : merge.delivered[k].ok
               /\ ItemBytes(merge.delivered) = Flatten(merge.payloads)

\* A finished download of two parts, the first of three bytes cut with a
\* buffer of two: a short slice is delivered before the second part's bytes.
C20_Witness ==
    /\ merge.pc = "done"
    /\ merge.rx_alive
    /\ merge.channel = <<>>
    /\ merge.read_buffer_bytes = 2
    /\ Len(merge.payloads) = 2
    /\ Len(merge.payloads[1]) = 3
    /\ Len(merge.payloads[2]) >= 1
    /\ Len(merge.delivered) >= 3
    /\ Len(merge.delivered[2].bytes) = 1

\* C21: when fetching or unpacking part k fails, the items sent are all the
\* slices of the parts before k followed by exactly one error item, which
\* is the last item of the stream; after it the task sends nothing and
\* fetches no further part.
C21_ErrorEndsStream ==
    /\ [](LET items == merge.delivered \o merge.channel
          IN  /\ \A k \in 1..Len(items) : ~items[k].ok => k = Len(items)
              /\ (\E k \in 1..Len(items) : ~items[k].ok) => merge.pc = "failed"
              /\ (merge.pc = "failed" /\ merge.rx_alive) =>
                     /\ items # <<>>
                     /\ ~items[Len(items)].ok
                     /\ ItemBytes(items) =
                            Flatten(SubSeq(merge.payloads, 1, merge.i - 1)))
    /\ [][merge.pc = "failed" =>
              /\ merge'.pc = "failed"
              /\ merge'.i = merge.i
              /\ Len(merge'.delivered) + Len(merge'.channel)
                     <= Len(merge.delivered) + Len(merge.channel)]_vars

\* The fetch of part 2 failed after part 1, of three bytes, was streamed:
\* the consumer has taken the slices of part 1 and then the error item.
C21_Witness ==
    /\ merge.pc = "failed"
    /\ merge.i = 2
    /\ Len(merge.payloads) = 2
    /\ Len(merge.payloads[1]) = 3
    /\ merge.rx_alive
    /\ merge.channel = <<>>
    /\ Len(merge.delivered) = 3
    /\ ~merge.delivered[3].ok
    /\ ItemBytes(merge.delivered) = merge.payloads[1]

\* C22: normalize_parts returns parts_info unchanged when it is non-empty;
\* when it is empty it returns one PartInfo per entry of message_ids, in
\* the same order, with part = position + 1 (zero-based position),
\* platform "discord", the record's channel_id, and no file_id.
C22_NormalizeParts ==
    (call.fn = "normalize_parts" /\ call.ret # None) =>
        LET record == call.arg
            parts  == call.ret[1]
        IN  IF record.parts_info # <<>>
            THEN parts = record.parts_info
            ELSE /\ Len(parts) = Len(record.message_ids)
                 /\ \A i \in 1..Len(parts) :
                        /\ parts[i].part = i
                        /\ parts[i].platform = "discord"
                        /\ parts[i].message_id = record.message_ids[i]
                        /\ parts[i].channel_id = Some(record.channel_id)
                        /\ parts[i].file_id = None

\* A legacy record of two message ids in descending order was normalized.
C22_Witness ==
    /\ call.fn = "normalize_parts"
    /\ call.ret # None
    /\ call.arg.parts_info = <<>>
    /\ call.arg.message_ids = <<22, 21>>
    /\ Len(call.ret[1]) = 2
    /\ call.ret[1][2].part = 2

C24_LoadNeverFails ==
    /\ [](call.fn = "load_json" =>
              LET filename == call.arg
                  value    == call.ret[1]
              IN  /\ call.ret # None
                  /\ value.kind = DocKind(filename)
                  /\ filename \notin DOMAIN files => value.len = 0
                  /\ (filename \in DOMAIN files
                          /\ ~Parses(files[filename], DocKind(filename)))
                         => value.len = 0
                  /\ (filename \in DOMAIN files
                          /\ Parses(files[filename], DocKind(filename)))
                         => value.len = Len(files[filename]) - 2)
    /\ [][\A filename \in StateFiles : LoadJson(filename) => files' = files]_vars

\* The history file holds an element and lacks its closing bracket, as
\* after an interrupted write; the load returned the empty list.
C24_Witness ==
    /\ call.fn = "load_json"
    /\ call.arg = "file_history.json"
    /\ "file_history.json" \in DOMAIN files
    /\ files["file_history.json"] = <<"[", "e">>
    /\ call.ret = Some([kind |-> "list", len |-> 0])

\* C23 (as claimed): no two stored upload sessions have the same
\* channel_id.
C23_OwnChannelPerUpload ==
    \A a \in DOMAIN sessions, b \in DOMAIN sessions :
        a # b => channel_id[a] # channel_id[b]

\* What the code keeps: the channel of a session exists in the guild, and
\* the name of every channel is a slug: not empty, of kept characters in
\* lower case without spaces, with no dash at either end and no two dashes
\* in a row.
C23_ChannelsAreSlugs ==
    /\ \A sid \in DOMAIN sessions : channel_id[sid] \in 1..Len(guild_channels)
    /\ \A id \in 1..Len(guild_channels) :
           LET name == guild_channels[id].name
           IN  /\ name # <<>>
               /\ \A k \in 1..Len(name) : name[k] \in {"a", "-", "_", "f", "i", "l", "e"}
               /\ name[1] # "-" /\ name[Len(name)] # "-"
               /\ \A k \in 1..(Len(name) - 1) : ~(name[k] = "-" /\ name[k + 1] = "-")

\* C26: at every suspension point of the sender, the bytes cut into parts
\* so far followed by the bytes in buffer are the chunks
\* 0..next_expected-1 concatenated in index order; next_expected never
\* decreases; and a pending chunk is appended only when next_expected has
\* reached its index: until then it stays in pending_chunks.
C26_BufferFollowsIndexOrder ==
    /\ [](\A sid \in DOMAIN senders :
              LET s == senders[sid]
              IN  /\ \A i \in 0..(s.next_expected - 1) : i \in DOMAIN chunks[sid]
                  /\ Flatten(PartsData(sid)) \o s.buffer =
                         Flatten([i \in 1..s.next_expected |-> chunks[sid][i - 1]]))
    /\ [][\A sid \in DOMAIN senders :
              /\ senders'[sid].next_expected >= senders[sid].next_expected
              /\ \A idx \in DOMAIN senders[sid].pending_chunks :
                     idx >= senders'[sid].next_expected
                         => idx \in DOMAIN senders'[sid].pending_chunks]_vars

\* Chunks 0 and 1 are both appended: one full part that starts with the
\* first byte of chunk 0 is cut, and buffer ends with bytes of chunk 1.
C26_Witness ==
    \E sid \in DOMAIN senders :
        /\ senders[sid].next_expected = 2
        /\ Len(tasks[sid]) = 1
        /\ senders[sid].buffer # <<>>
        /\ Len(sessions[sid].received_chunks) = 2
        /\ tasks[sid][1].data[1] = <<0, 1>>
        /\ senders[sid].buffer[Len(senders[sid].buffer)][1] = 1

\* The step dispatched a part of fewer than input_limit bytes for the
\* session.
ShortPartDispatched(sid) ==
    /\ Len(tasks'[sid]) > Len(tasks[sid])
    /\ Len(tasks'[sid][Len(tasks'[sid])].data) < InputLimit

\* A short part is among the parts the session dispatched.
HasShortPart(sid) ==
    \E p \in 1..Len(tasks[sid]) : Len(tasks[sid][p].data) < InputLimit

\* The short part is dispatched with no dispatch task outstanding, and with
\* all chunks in or the queue closed.
ShortPartConditions(sid) ==
    ShortPartDispatched(sid) =>
        /\ Len(tasks'[sid]) = Len(tasks[sid]) + 1
        /\ senders[sid].pending_tasks = <<>>
        /\ \A p \in 1..Len(tasks[sid]) : tasks[sid][p].st \in {"ok", "err"}
        /\ \/ AllIn(senders'[sid].next_expected, senders[sid].total_chunks,
                    senders'[sid].pending_chunks)
           \/ sid \notin sender_map /\ senders[sid].queue = <<>>

\* C27 (as claimed): a short part is dispatched only when no dispatch task
\* is outstanding, and only after all chunks are in (next_expected reached
\* total_chunks with pending_chunks empty) or after the queue was closed;
\* and once a short part was dispatched no further part is cut.
C27_ShortPartIsLast ==
    [][\A sid \in DOMAIN senders :
           /\ ShortPartConditions(sid)
           /\ HasShortPart(sid) => Len(tasks'[sid]) = Len(tasks[sid])]_vars

\* The part of C27 the code keeps: the conditions under which a short part
\* is dispatched; and the short part is the last part as long as every
\* index posted is below total_chunks.
C27_ShortPartOnlyWhenIdleAndAllIn ==
    [][\A sid \in DOMAIN senders :
           /\ ShortPartConditions(sid)
           /\ (HasShortPart(sid) /\ DOMAIN chunks'[sid] \subseteq FileIndices(sid))
                  => Len(tasks'[sid]) = Len(tasks[sid])]_vars

\* The sender of the session returned and sent its result on result_tx.
SenderDone(sid) == sid \in DOMAIN senders /\ senders[sid].pc = "done"

\* C28 (as claimed): once all chunks 0..total_chunks-1 are enqueued, every
\* dispatch task finishing, the sender eventually leaves its loop, whether
\* or not complete_upload closes the queue; a sender that left delivered a
\* result, and the result it delivered is never replaced by another.
C28_SenderDeliversOneResult ==
    /\ (1 \in DOMAIN senders /\ AllPosted(1)) ~> SenderDone(1)
    /\ [](\A sid \in DOMAIN senders :
              senders[sid].pc = "done" <=> senders[sid].result.kind # "none")
    /\ [][\A sid \in DOMAIN senders :
              senders[sid].result.kind # "none" =>
                  senders'[sid].result = senders[sid].result]_vars

\* What the code keeps: the sender leaves once complete_upload has closed
\* the queue, and it delivers one result.
C28_SenderLeavesOnceQueueClosed ==
    /\ (1 \in DOMAIN senders /\ 1 \notin sender_map) ~> SenderDone(1)
    /\ [](\A sid \in DOMAIN senders :
              senders[sid].pc = "done" <=> senders[sid].result.kind # "none")
    /\ [][\A sid \in DOMAIN senders :
              senders[sid].result.kind # "none" =>
                  senders'[sid].result = senders[sid].result]_vars

\* ------------------------------------------------------------ C29
SendReturned(r) == r.pc \in {"ok", "err", "too_big", "zip_err"}

\* C29: a part's send is attempted at most discord_send_retries times and
\* nothing is attempted or waited for after the first success or after the
\* task returned; the wait after zero-based attempt a is
\* discord_retry_base_s^a seconds, waits stand only between two attempts
\* (none after the last), and a task that returns a send error has made
\* its last attempt and returns that attempt's error.
C29_SendRetryLaw ==
    /\ [](\A k \in DOMAIN sends :
              LET r       == sends[k]
                  t       == tasks[k[1]][k[2]]
                  retries == cfg.discord_send_retries
              IN  /\ r.attempts <= retries
                  /\ Len(r.waits) <= retries - 1
                  /\ \A a \in 1..Len(r.waits) :
                         r.waits[a] = cfg.discord_retry_base_s ^ (a - 1)
                  /\ r.pc = "attempt" => Len(r.waits) = r.attempts /\ r.attempts < retries
                  /\ r.pc = "sleep" => Len(r.waits) = r.attempts - 1 /\ r.attempts < retries
                  /\ r.pc = "ok" => Len(r.waits) = r.attempts - 1 /\ t.st = "ok"
                  /\ r.pc = "err" =>
                         /\ Len(r.waits) = r.attempts - 1
                         /\ t.st = "err"
                         /\ r.last_err = r.attempts
                         /\ ~t.use_tg => r.attempts = retries
                  /\ t.st = "ok" => r.pc = "ok"
                  /\ t.st = "err" => r.pc \in {"err", "too_big", "zip_err"})
    /\ [][\A k \in DOMAIN sends :
              SendReturned(sends[k]) => sends'[k] = sends[k]]_vars

\* A Discord send failed discord_send_retries = 3 times with waits of 1 and
\* 3 seconds between the attempts, and the task returned the third error.
C29_Witness ==
    \E k \in DOMAIN sends :
        /\ ~tasks[k[1]][k[2]].use_tg
        /\ sends[k].pc = "err"
        /\ sends[k].attempts = 3
        /\ sends[k].waits = <<1, 3>>
        /\ sends[k].last_err = 3
        /\ tasks[k[1]][k[2]].st = "err"

\* A Telegram send succeeded on its second and last attempt, one second
\* after the first.
C29_WitnessSecondTry ==
    \E k \in DOMAIN sends :
        /\ tasks[k[1]][k[2]].use_tg
        /\ sends[k].pc = "ok"
        /\ sends[k].attempts = 2
        /\ sends[k].waits = <<1>>

\* ------------------------------------------------------------ C30
\* C30: an archive that was sent at least once is no longer than its
\* backend's cap (the guild's limit on Discord, tg_file_limit_bytes on
\* Telegram); a part whose archive is longer returns an error with no send
\* attempt and no wait, never sends afterwards, and its sender never
\* returns Ok: once it returned, it returned the error, and no history
\* record is written for the upload.
C30_ArchiveWithinCap ==
    /\ [](\A k \in DOMAIN sends :
              LET r   == sends[k]
                  t   == tasks[k[1]][k[2]]
                  s   == senders[k[1]]
                  cap == IF t.use_tg THEN cfg.tg_file_limit
                         ELSE guild_filesize_limit(cfg.premium_tier)
              IN  /\ r.attempts > 0 => r.zip_len <= cap
                  /\ r.zip_len > cap =>
                         /\ r.pc = "too_big"
                         /\ r.attempts = 0
                         /\ r.waits = <<>>
                         /\ t.st = "err"
                         /\ s.result.kind # "ok"
                         /\ s.pc = "done" => s.result.kind = "err"
                         /\ history = <<>>)
    /\ [][\A k \in DOMAIN sends :
              sends[k].pc = "too_big" =>
                  /\ sends'[k].pc = "too_big"
                  /\ sends'[k].attempts = 0
                  /\ tasks'[k[1]][k[2]].st = "err"]_vars

\* An archive of exactly the cap was sent, and in the same upload a part
\* whose archive is one MiB over the cap returned without any attempt and
\* failed the sender.
C30_Witness ==
    \E k \in DOMAIN sends :
        /\ sends[k].pc = "too_big"
        /\ sends[k].zip_len = ArchiveCap(tasks[k[1]][k[2]].use_tg) + 1
        /\ sends[k].attempts = 0
        /\ senders[k[1]].pc = "done"
        /\ senders[k[1]].result.kind = "err"
        /\ \E j \in DOMAIN sends :
               /\ j[1] = k[1]
               /\ sends[j].pc = "ok"
               /\ sends[j].zip_len = ArchiveCap(tasks[j[1]][j[2]].use_tg)

\* ------------------------------------------------------------ C31
\* C31: a GC tick leaves sender_map as it was: every SenderEntry, that of
\* a session the tick removes included, stays in sender_map with its
\* sender task and its dispatch tasks untouched; and every session that is
\* not expired (younger than the TTL, or not "uploading") is kept as it was.
C31_GcKeepsSenderEntries ==
    [][GcTick =>
           /\ sender_map' = sender_map
           /\ \A sid \in sender_map :
                  /\ sid \in sender_map'
                  /\ senders'[sid] = senders[sid]
                  /\ tasks'[sid] = tasks[sid]
           /\ \A sid \in DOMAIN sessions :
                  (sessions[sid].status # "uploading"
                       \/ ~(now - sessions[sid].created_at > cfg.session_ttl))
                  => (sid \in DOMAIN sessions' /\ sessions'[sid] = sessions[sid])
           /\ DOMAIN sessions' \subseteq DOMAIN sessions]_vars

\* GC removed the record of a session whose SenderEntry is still in
\* sender_map and whose sender is still running with a chunk taken in,
\* while a younger session is still stored.
C31_Witness ==
    \E a \in sender_map, b \in DOMAIN sessions :
        /\ a \notin DOMAIN sessions
        /\ RxAlive(senders[a])
        /\ senders[a].pc # "start"
        /\ now - sessions[b].created_at <= cfg.session_ttl
        /\ sessions[b].status = "uploading"

\* ------------------------------------------------------------ C32
\* The fetcher task has returned.
MergeReturned == merge.pc \in {"done", "failed", "stopped"}

\* The fetcher is about to send an item: the next slice of the part it
\* holds.
AboutToSendSlice ==
    /\ merge.pc = "send"
    /\ merge.offset < Len(merge.payloads[merge.i])

\* C32: once the consumer dropped its receiver, no item enters the channel
\* or reaches the consumer; the fetcher's next attempt to send (a slice, or
\* the error of a failed fetch) is its last step: it returns there, and a
\* task that returned sends nothing and fetches no further part.
C32_FetcherStopsOnDisconnect ==
    /\ [](merge.pc # "idle" /\ ~merge.rx_alive => merge.channel = <<>>)
    /\ [][merge.pc # "idle" /\ ~merge.rx_alive =>
              /\ merge'.delivered = merge.delivered
              /\ AboutToSendSlice => merge'.pc = "stopped"
              /\ merge'.pc \in {"stopped", "failed"} =>
                     /\ merge'.i = merge.i
                     /\ merge'.offset = merge.offset]_vars
    /\ [][MergeReturned =>
              /\ merge'.pc = merge.pc
              /\ merge'.i = merge.i
              /\ merge'.offset = merge.offset
              /\ Len(merge'.channel) <= Len(merge.channel)]_vars

\* The consumer took a slice and disconnected; the fetcher returned at its
\* next send with a part still unfetched.
C32_Witness ==
    /\ merge.pc = "stopped"
    /\ ~merge.rx_alive
    /\ merge.delivered # <<>>
    /\ merge.i < Len(merge.payloads)

\* ------------------------------------------------------------ C33
\* C33: a complete_upload whose sender returned Ok puts exactly one
\* FileRecord in front of the history: status "sent", parts equal to the
\* length of its parts_info, method_key the method of the sender's result;
\* the records already there follow it unchanged and in their order, and
\* the session record is deleted.
C33_CompleteAddsOneRecordInFront ==
    [][\A sid \in DOMAIN senders :
           (CompleteFinish(sid) /\ senders[sid].result.kind = "ok") =>
               /\ Len(history') = Len(history) + 1
               /\ Tail(history') = history
               /\ Head(history').session_id = sid
               /\ Head(history').status = "sent"
               /\ Head(history').parts = Len(Head(history').parts_info)
               /\ Head(history').method_key = senders[sid].result.method
               /\ sid \in DOMAIN sessions
               /\ sid \notin DOMAIN sessions'
               /\ \A other \in DOMAIN sessions \ {sid} :
                      other \in DOMAIN sessions' /\ sessions'[other] = sessions[other]]_vars

\* Two uploads were completed one after the other: the later record stands
\* before the earlier one, one of them in two parts, and both session
\* records are gone.
C33_Witness ==
    /\ Len(history) = 2
    /\ history[1].session_id # history[2].session_id
    /\ \E k \in 1..2 : history[k].parts = 2 /\ Len(history[k].parts_info) = 2
    /\ DOMAIN sessions = {}

\* ------------------------------------------------------------ C34
\* The indices of a session whose every upload_chunk call has returned
\* success: posted, and no mark_chunk_received for them is still between
\* its load and its save.
Acknowledged(sid) ==
    {idx \in DOMAIN chunks[sid] :
         ~\E op \in rmw : op.session_id = sid /\ op.chunk_index = idx}

\* C34 (as claimed): whatever the interleaving of upload_chunk handlers,
\* session creation and GC, every index whose upload_chunk returned
\* success is in the stored received_chunks of its session while the
\* session is stored.
C34_AcknowledgedIndexIsStored ==
    \A sid \in DOMAIN sessions \cap DOMAIN chunks :
        \A idx \in Acknowledged(sid) : Contains(sessions[sid].received_chunks, idx)

\* With every upload_chunk running its load and save without another
\* handler in between, every accepted index is stored while the session is.
C34_StoredWhenNotInterleaved ==
    \A sid \in DOMAIN sessions \cap DOMAIN chunks :
        \A idx \in DOMAIN chunks[sid] : Contains(sessions[sid].received_chunks, idx)

\* ------------------------------------------------------------ C35
\* C35: with an index posted a second time with the same payload, before
\* or after the sender took the first copy, the bytes cut into parts and
\* held in buffer stay the chunks 0..next_expected-1 in index order, each
\* once; once all chunks are posted and complete_upload has closed the
\* queue the sender returns; and unless the guild fetch or a part send
\* failed, it returns Ok with parts whose payloads are the file.
C35_RepostKeepsStream ==
    /\ [](\A sid \in DOMAIN senders :
              LET s == senders[sid]
              IN  /\ Flatten(PartsData(sid)) \o s.buffer =
                         Flatten([i \in 1..s.next_expected |-> chunks[sid][i - 1]])
                  /\ s.next_expected <= s.total_chunks
                  /\ Delivered(sid) =>
                         /\ AllPosted(sid)
                         /\ Flatten(PartsData(sid)) = FileBytes(sid)
                         /\ Len(s.result.parts_info) = Len(tasks[sid])
                  /\ (s.pc = "done" /\ ~PartFailed(sid) /\ s.next_expected > 0)
                         => Delivered(sid))
    /\ (1 \in DOMAIN senders /\ AllPosted(1) /\ 1 \notin sender_map) ~> SenderDone(1)

\* Chunk 0 of a two-chunk file was posted again after the sender had
\* appended its first copy: the second copy is left in pending_chunks, and
\* the sender delivered the file in two parts.
C35_Witness ==
    /\ 1 \in DOMAIN senders
    /\ senders[1].total_chunks = 2
    /\ n_posts = 3
    /\ 0 \in DOMAIN senders[1].pending_chunks
    /\ senders[1].next_expected = 2
    /\ Delivered(1)
    /\ Len(tasks[1]) = 2
    /\ Flatten(PartsData(1)) = chunks[1][0] \o chunks[1][1]

\* Chunk 0 was posted twice before the sender took either copy, and the
\* sender delivered the two-chunk file.
C35_WitnessBothQueued ==
    /\ 1 \in DOMAIN senders
    /\ senders[1].total_chunks = 2
    /\ n_posts = 3
    /\ DOMAIN senders[1].pending_chunks = {}
    /\ Delivered(1)
    /\ Flatten(PartsData(1)) = chunks[1][0] \o chunks[1][1]

\* ------------------------------------------------------------ C36
\* C36: every index in a stored received_chunks was accepted into the
\* sender's queue; an upload_chunk answers 404 when the session record is
\* missing, 400 when the body is empty and 500 when sender_map holds no
\* entry, the sender has returned or was dropped, or the queue holds 64
\* items, and then leaves every session record and every queue as they
\* were; otherwise it answers 200 with the chunk appended to the queue and
\* the index in received_chunks.
C36_MarkOnlyAfterEnqueue ==
    /\ [](\A sid \in DOMAIN sessions :
              \A k \in 1..Len(sessions[sid].received_chunks) :
                  sessions[sid].received_chunks[k] \in DOMAIN chunks[sid])
    /\ [][\A sid \in Ids, body \in {ChunkBody(0, len) : len \in ChunkSizes} :
              UploadChunkAnswered(sid, 0, body) =>
                  LET missing  == sid \notin DOMAIN sessions
                      empty    == body = <<>>
                      no_entry == sid \notin sender_map
                      exited   == senders[sid].pc \in {"done", "aborted"}
                      full     == Len(senders[sid].queue) >= 64
                  IN  IF missing \/ empty \/ no_entry \/ exited \/ full
                      THEN /\ sessions' = sessions
                           /\ senders' = senders
                           /\ call'.ret = <<IF missing THEN 404
                                            ELSE IF empty THEN 400 ELSE 500>>
                      ELSE /\ call'.ret = <<200>>
                           /\ senders'[sid].queue = Append(senders[sid].queue, <<0, body>>)
                           /\ Contains(sessions'[sid].received_chunks, 0)]_vars

\* A chunk was refused with 500 because the queue of a running sender
\* holds 64 items, while index 0, accepted earlier, is in received_chunks.
C36_Witness ==
    /\ call.fn = "upload_chunk"
    /\ call.ret = <<500>>
    /\ \E sid \in sender_map :
           /\ call.arg[1] = sid
           /\ RxAlive(senders[sid])
           /\ Len(senders[sid].queue) = ChunkQueueCap
           /\ sessions[sid].received_chunks = <<0>>

\* A chunk was refused with 500 because the sender had failed, its entry
\* still in sender_map, and nothing was marked.
C36_WitnessSenderExited ==
    /\ call.fn = "upload_chunk"
    /\ call.ret = <<500>>
    /\ \E sid \in sender_map :
           /\ call.arg[1] = sid
           /\ senders[sid].pc = "done"
           /\ sessions[sid].received_chunks = <<>>
           /\ senders[sid].queue = <<>>

\* A chunk was refused with 500 because complete_upload had taken the
\* SenderEntry.
C36_WitnessNoEntry ==
    /\ call.fn = "upload_chunk"
    /\ call.ret = <<500>>
    /\ \E sid \in DOMAIN sessions :
           /\ call.arg[1] = sid
           /\ sid \notin sender_map
           /\ RxAlive(senders[sid])

\* ------------------------------------------------------------ C37
\* C37 (as claimed): whenever init_upload would answer a resume request
\* for a session with that same session_id (the session is resumable), the
\* sender task of the session is still running and holds the receiving end
\* of the chunk queue.
C37_ResumableHasRunningSender ==
    \A r \in DOMAIN senders :
        InitResponse(r, TRUE).session_id = r => RxAlive(senders[r])

\* What the code keeps: a session reported resumable has its record in
\* status "uploading" and its SenderEntry in sender_map, so its sender was
\* not cancelled and its result was not taken; the sender may have returned.
C37_ResumableHasEntry ==
    \A r \in DOMAIN senders :
        InitResponse(r, TRUE).session_id = r =>
            /\ r \in sender_map
            /\ r \in DOMAIN sessions
            /\ sessions[r].status = "uploading"
            /\ senders[r].pc # "aborted"
            /\ r \notin completing

\* ------------------------------------------------------------ C38
\* cancel_upload has returned success for the session.
Cancelled(sid) == call.fn = "cancel_upload" /\ call.arg = <<sid>> /\ call.ret = <<200>>

\* C38 (as claimed): once cancel_upload has returned success for a
\* session, no step adds a FileRecord of that session to the history,
\* wherever a complete_upload of the session stands at that moment.
C38_NoRecordAfterCancel ==
    [][\A sid \in DOMAIN senders :
           Cancelled(sid) =>
               \A i \in 1..Len(history') :
                   history'[i].session_id = sid =>
                       \E j \in 1..Len(history) : history[j] = history'[i]]_vars

\* What the code keeps: after a cancel_upload that found the SenderEntry
\* in sender_map, no FileRecord of the session is added.
C38_NoRecordAfterCancelWithEntry ==
    [][\A sid \in DOMAIN senders :
           (Cancelled(sid) /\ sid \notin completing) =>
               \A i \in 1..Len(history') :
                   history'[i].session_id = sid =>
                       \E j \in 1..Len(history) : history[j] = history'[i]]_vars

\* ------------------------------------------------------------ C39
\* C39 (as claimed): under fair scheduling of the sender, its tasks, the
\* handlers and the GC loop, a session record in status "sending" is
\* eventually removed from the session store.
C39_SendingIsEventuallyRemoved ==
    (1 \in DOMAIN sessions /\ sessions[1].status = "sending") ~> (1 \notin DOMAIN sessions)

\* ------------------------------------------------------------ C40
\* C40 (as claimed): every FileRecord in the history has parts >= 1 and a
\* non-empty parts_info, whatever total_chunks init_upload was given.
C40_RecordHasAPart ==
    \A i \in 1..Len(history) :
        history[i].parts >= 1 /\ history[i].parts_info # <<>>

\* What the code keeps: a record of an upload of one chunk or more whose
\* chunk 0 was posted has parts >= 1, and every record has as many
\* parts_info entries as parts.
C40_RecordOfPostedFileHasAPart ==
    \A i \in 1..Len(history) :
        LET sid == history[i].session_id
        IN  /\ history[i].parts = Len(history[i].parts_info)
            /\ (senders[sid].total_chunks >= 1 /\ 0 \in DOMAIN chunks[sid])
                   => history[i].parts >= 1

====
